---- MODULE Spec2Model ----
(***************************************************************************)
(* Review state machine of the KRWL event manager                          *)
(* (src/src/modules/editor.py, src/src/modules/utils.py, src/src/main.py). *)
(*                                                                         *)
(* The stores are the JSON files under data/: pending_events.json,         *)
(* events.json, rejected_events.json and the backups.  review_pending      *)
(* works on a list held in memory (pending_events) and writes the pending  *)
(* store back when its loop ends; _approve_event and the batch operations  *)
(* write the stores themselves.  One action is one operator command, the  *)
(* whole handler of that command included.                                 *)
(***************************************************************************)
EXTENDS Integers, Sequences, FiniteSets, TLC

\* ------------------------------------------------------------------ bounds
MaxPending == 2     \* events in the pending store when the program starts
MaxOps == 1         \* batch modes, edits, scrapes and second reviews in one run
MaxEntries == 2     \* the largest configured max_entries of a SourceCache
MaxRuns == 2        \* scrape runs of the source vhs
MaxHistorical == 2  \* historical events the similarity search ranks at once
MaxBatch == 2       \* events in a batch given to the entity resolver

\* ------------------------------------------------------------------ values
\* Titles are character sequences, so that lower(), strip() and the
\* substring test of `pattern` are computed and not assumed.
TitleSpam == <<"S", "p", "a", "m">>
TitleJazz == <<"J", "a", "z", "z">>
TitleNone == <<>>
TitleSpamNoisy == <<"s", "p", "a", "m", " ">>

GoodTime == "2026-05-01T19:00:00"
BadTime == "tomorrow evening"
Now == "now"

NoError == [kind |-> "none", id |-> 0]

\* str.lower() on one character
LowerChar(c) ==
    CASE c = "S" -> "s"
      [] c = "J" -> "j"
      [] c = "P" -> "p"
      [] c = "A" -> "a"
      [] c = "M" -> "m"
      [] c = "Z" -> "z"
      [] c = "H" -> "h"
      [] OTHER -> c

\* str.lower()
Lower(s) == [k \in 1..Len(s) |-> LowerChar(s[k])]

\* `pattern in title`: substring test
Contains(pattern, text) ==
    \E k \in 0..(Len(text) - Len(pattern)) :
        SubSeq(text, k + 1, k + Len(pattern)) = pattern

\* the schema check of models.validate_event_data: start_time must be an ISO
\* date-time; it returns the event or raises ValueError
ValidateEventData(event) == event.start_time = GoodTime

\* an event as the adapters store it in the pending store
NewEvent(id, title, source, start_time) ==
    [id |-> id, title |-> title, source |-> source, start_time |-> start_time,
     status |-> "pending", published_at |-> ""]

\* the event kinds the initial pending store is drawn from: a valid one, one
\* that fails the schema check, one without title, one without source
EventKinds ==
    { [title |-> TitleSpam, source |-> "facebook", start_time |-> GoodTime],
      [title |-> TitleJazz, source |-> "facebook", start_time |-> BadTime],
      [title |-> TitleNone, source |-> "facebook", start_time |-> GoodTime],
      [title |-> TitleJazz, source |-> "", start_time |-> GoodTime] }

PendingLists ==
    UNION { { [k \in 1..n |-> NewEvent(k, f[k].title, f[k].source, f[k].start_time)] :
              f \in [1..n -> EventKinds] } : n \in 0..MaxPending }

\* an event published before the program starts
OldEvent ==
    [id |-> 0, title |-> TitleJazz, source |-> "facebook", start_time |-> GoodTime,
     status |-> "published", published_at |-> "earlier"]

\* ------------------------------------------------------------------ cache values
\* Cache keys are event ids; MaxEntries + 1 of them, so that a cache of
\* every size up to MaxEntries can be overfilled.
KeyNames == <<"k1", "k2", "k3", "k4", "k5", "k6">>
Keys == {KeyNames[n] : n \in 1..(MaxEntries + 1)}

\* A file is there or not, and its text is a sequence of tokens.
MissingFile == [exists |-> FALSE, text |-> <<>>]
File(text) == [exists |-> TRUE, text |-> text]

\* json.dumps of a payload with the newest key first
DumpsNewestFirst(keys) ==
    <<"{">> \o [n \in 1..Len(keys) |-> keys[Len(keys) + 1 - n]] \o <<Now, "}">>

\* json.dumps of the payload of SourceCache.save
Dumps(keys) == <<"{">> \o keys \o <<Now, "}">>

\* json.loads: what the text decodes to.  "object": a dict with
\* 'processed_keys'; "empty_object": the dict {}; "list": the document [],
\* valid JSON that is no dict; anything else raises JSONDecodeError
JsonKind(text) ==
    IF text = <<"{", "}">> THEN "empty_object"
    ELSE IF text = <<"[", "]">> THEN "list"
    ELSE IF /\ Len(text) >= 3
            /\ text[1] = "{"
            /\ text[Len(text)] = "}"
            /\ text[Len(text) - 1] = Now
            /\ \A n \in 2..(Len(text) - 2) : text[n] \in Keys
    THEN "object"
    ELSE "invalid"

NoCall == [call |-> "none", result |-> "none"]

NotSaving == [state |-> "none"]

NotCalled == [called |-> FALSE]

\* no key marked yet into the cache constructed empty
NoMarks == [distinct |-> TRUE, keys |-> <<>>]

\* ------------------------------------------------------------------ state
VARIABLES
    pending_file,    \* data/pending_events.json: 'pending_events'
    events_file,     \* data/events.json: 'events'
    rejected_file,   \* data/rejected_events.json: 'rejected_events'
    backups,         \* ids of the backup copies written
    pending_events,  \* review_pending: the working list
    i,               \* review_pending: index into the working list (0-based)
    selected,        \* _batch_selection_mode: the selected indices (0-based)
    pc,              \* "menu", "review", "batch", "exited"
    error,           \* the exception that left review_pending, or NoError
    last,            \* the last operator command handled
    writes,          \* the store writes of the last command, in order
    session_start,   \* the pending store as loaded when the review started
    approved,        \* <<id, command>> of the approvals since the review started
    rejected_ids,    \* ids rejected since the review started
    rejected_keys,   \* (title, source) pairs rejected by the operator
    nops,            \* operations counted against MaxOps so far
    nscraped         \* candidates the scrapes have stored so far

\* a SourceCache and its file
VARIABLES
    processed_keys,  \* SourceCache.processed_keys
    max_entries,     \* SourceCache.max_entries
    cache_file,      \* the file at SourceCache.cache_path
    returned,        \* the last call on the cache and how it returned
    marked,          \* the distinct keys marked into the empty cache, in order
    inserted_since   \* per key: new keys inserted since the key was inserted

\* the files written by a save, and the save in progress
VARIABLES
    disk,            \* per store, the file as it is on the disk
    saving           \* the save in progress, or the one a crash interrupted

\* a function of the program and its arguments
VARIABLES
    args,            \* the arguments and the objects they refer to
    result           \* what the function returned for them, or NotCalled

reviewVars == <<pending_file, events_file, rejected_file, backups, pending_events, i,
                selected, pc, error, last, writes, session_start, approved,
                rejected_ids, rejected_keys, nops, nscraped>>

cacheVars == <<processed_keys, max_entries, cache_file, returned, marked,
               inserted_since>>

saveVars == <<disk, saving>>

pureVars == <<args, result>>

\* the state of the components other than the review
componentVars == <<cacheVars, saveVars, pureVars>>

\* the state of the components other than the cache
cacheRest == <<reviewVars, saveVars, pureVars>>

vars == <<reviewVars, componentVars>>

\* no cache in use
CacheIdle ==
    /\ processed_keys = <<>>
    /\ max_entries = 0
    /\ cache_file = MissingFile
    /\ returned = NoCall
    /\ marked = NoMarks
    /\ inserted_since = <<>>

\* no save under way
SaveIdle ==
    /\ disk = <<>>
    /\ saving = NotSaving

\* no function called
PureIdle ==
    /\ args = <<>>
    /\ result = NotCalled

ComponentsIdle == CacheIdle /\ SaveIdle /\ PureIdle

\* no review in progress and empty stores
ReviewIdle ==
    /\ pending_file = <<>>
    /\ events_file = <<>>
    /\ rejected_file = <<>>
    /\ backups = <<>>
    /\ pending_events = <<>>
    /\ i = 0
    /\ selected = {}
    /\ pc = "menu"
    /\ error = NoError
    /\ last = "none"
    /\ writes = <<>>
    /\ session_start = <<>>
    /\ approved = {}
    /\ rejected_ids = {}
    /\ rejected_keys = {}
    /\ nops = 0
    /\ nscraped = 0

Init ==
    /\ pending_file \in PendingLists
    /\ events_file = <<OldEvent>>
    /\ rejected_file = <<>>
    /\ backups = <<>>
    /\ pending_events = <<>>
    /\ i = 0
    /\ selected = {}
    /\ pc = "menu"
    /\ error = NoError
    /\ last = "none"
    /\ writes = <<>>
    /\ session_start = <<>>
    /\ approved = {}
    /\ rejected_ids = {}
    /\ rejected_keys = {}
    /\ nops = 0
    /\ nscraped = 0
    /\ ComponentsIdle


\* ------------------------------------------------------------------ helpers
\* list.pop(pos), pos counted from 1
Pop(list, pos) == SubSeq(list, 1, pos - 1) \o SubSeq(list, pos + 1, Len(list))

\* list[idx] of Python: the position (from 1) that index idx addresses in a
\* list of length len, a negative index counting from the end; 0: IndexError
PyIndex(len, idx) ==
    IF 0 <= idx /\ idx < len THEN idx + 1
    ELSE IF idx < 0 /\ -len <= idx THEN len + idx + 1
    ELSE 0

SetMax(S) == CHOOSE m \in S : \A n \in S : n <= m

\* sorted(selected_indices, reverse=True)
RECURSIVE SortedReverse(_)
SortedReverse(S) ==
    IF S = {} THEN <<>>
    ELSE <<SetMax(S)>> \o SortedReverse(S \ {SetMax(S)})

Ids(list) == {list[k].id : k \in 1..Len(list)}

\* how many records of the list carry the id
CountId(list, id) == Cardinality({k \in 1..Len(list) : list[k].id = id})

\* the sublist of the elements at the positions (from 1) not in `drop`
RECURSIVE Without(_, _, _)
Without(list, drop, k) ==
    IF k > Len(list) THEN <<>>
    ELSE (IF k \in drop THEN <<>> ELSE <<list[k]>>) \o Without(list, drop, k + 1)

\* title normalisation of the rejection list: strip() and lower()
RECURSIVE Strip(_)
Strip(s) ==
    IF s = <<>> THEN s
    ELSE IF Head(s) = " " THEN Strip(Tail(s))
    ELSE IF s[Len(s)] = " " THEN Strip(SubSeq(s, 1, Len(s) - 1))
    ELSE s

Normalize(title) == Lower(Strip(title))

\* utils.add_rejected_event: one record per normalized (title, source)
AddRejectedEvent(rejected_events, title, source) ==
    LET record == [title |-> Normalize(title), source |-> source]
    IN  IF \E k \in 1..Len(rejected_events) : rejected_events[k] = record
        THEN rejected_events
        ELSE Append(rejected_events, record)

\* utils.backup_published_event: one backup copy per published event
BackupPublishedEvent(copies, event_dict) == Append(copies, event_dict.id)

\* ------------------------------------------------------------------ world
\* The files and the working list a handler reads and writes, threaded
\* through the calls it makes.
World ==
    [pend |-> pending_file, pub |-> events_file, rej |-> rejected_file,
     bak |-> backups, mem |-> pending_events, err |-> NoError,
     writes |-> <<>>, appr |-> approved, rejd |-> rejected_ids,
     keys |-> rejected_keys, via |-> "a"]

\* _approve_event writing the backup before it validates
ApproveEventBackupFirst(w, pos) ==
    LET event == w.mem[pos]
        event_dict == [event EXCEPT !.status = "published", !.published_at = Now]
    IN  IF ~ValidateEventData(event)
        THEN [w EXCEPT !.bak = BackupPublishedEvent(@, event_dict),
                       !.err = [kind |-> "ValueError", id |-> event.id]]
        ELSE [w EXCEPT !.bak = BackupPublishedEvent(@, event_dict),
                       !.pub = Append(@, event_dict),
                       !.mem[pos] = event_dict,
                       !.writes = @ \o <<"backup", "events">>,
                       !.appr = @ \cup {<<event.id, w.via>>}]

\* _approve_event on the event at position pos of the working list
ApproveEvent(w, pos) ==
    LET event == w.mem[pos]
        event_dict == [event EXCEPT !.status = "published", !.published_at = Now]
    IN  IF ~ValidateEventData(event)
        THEN [w EXCEPT !.err = [kind |-> "ValueError", id |-> event.id]]
        ELSE [w EXCEPT !.bak = BackupPublishedEvent(@, event_dict),
                       !.pub = Append(@, event_dict),
                       !.mem[pos] = event_dict,
                       !.writes = @ \o <<"backup", "events">>,
                       !.appr = @ \cup {<<event.id, w.via>>}]

\* _reject_event with `or` for `and` in its test
RejectEventEitherField(w, pos) ==
    LET event == w.mem[pos]
    IN  IF event.title # <<>> \/ event.source # ""
        THEN [w EXCEPT !.rej = AddRejectedEvent(@, event.title, event.source),
                       !.writes = Append(@, "rejected"),
                       !.rejd = @ \cup {event.id}]
        ELSE [w EXCEPT !.rejd = @ \cup {event.id}]

\* _reject_event that only logs
RejectEventNoRecord(w, pos) ==
    LET event == w.mem[pos]
    IN  IF event.title # <<>> /\ event.source # ""
        THEN [w EXCEPT !.rejd = @ \cup {event.id},
                       !.keys = @ \cup {<<Normalize(event.title), event.source>>}]
        ELSE [w EXCEPT !.rejd = @ \cup {event.id}]

\* _reject_event on the event at position pos of the working list
RejectEvent(w, pos) ==
    LET event == w.mem[pos]
    IN  IF event.title # <<>> /\ event.source # ""
        THEN [w EXCEPT !.rej = AddRejectedEvent(@, event.title, event.source),
                       !.writes = Append(@, "rejected"),
                       !.rejd = @ \cup {event.id},
                       !.keys = @ \cup {<<Normalize(event.title), event.source>>}]
        ELSE [w EXCEPT !.rejd = @ \cup {event.id}]

\* the loop of _batch_approve over the indices, highest first
RECURSIVE ApproveLoop(_, _)
ApproveLoop(w, idxs) ==
    IF idxs = <<>> THEN w
    ELSE LET pos == PyIndex(Len(w.mem), Head(idxs))
         IN  IF pos = 0
             THEN [w EXCEPT !.err = [kind |-> "IndexError", id |-> 0]]
             ELSE LET w2 == ApproveEvent(w, pos)
                  IN  IF w2.err # NoError THEN w2
                      ELSE ApproveLoop([w2 EXCEPT !.mem = Pop(@, pos)], Tail(idxs))

\* _batch_approve
BatchApprove(w, selected_indices) ==
    LET events_data == w.pub
        w2 == ApproveLoop(w, SortedReverse(selected_indices))
    IN  IF w2.err # NoError THEN w2
        ELSE [w2 EXCEPT !.pub = events_data,
                        !.pend = w2.mem,
                        !.writes = @ \o <<"events", "pending">>]

\* the loop of _batch_reject over the indices, highest first
RECURSIVE RejectLoop(_, _)
RejectLoop(w, idxs) ==
    IF idxs = <<>> THEN w
    ELSE LET pos == PyIndex(Len(w.mem), Head(idxs))
         IN  IF pos = 0
             THEN [w EXCEPT !.err = [kind |-> "IndexError", id |-> 0]]
             ELSE RejectLoop([RejectEvent(w, pos) EXCEPT !.mem = Pop(@, pos)],
                             Tail(idxs))

\* _batch_reject
BatchReject(w, selected_indices) ==
    LET w2 == RejectLoop(w, SortedReverse(selected_indices))
    IN  IF w2.err # NoError THEN w2
        ELSE [w2 EXCEPT !.pend = w2.mem, !.writes = Append(@, "pending")]

\* the files and the bookkeeping after a handler
Store(w) ==
    /\ pending_file' = w.pend
    /\ events_file' = w.pub
    /\ rejected_file' = w.rej
    /\ backups' = w.bak
    /\ error' = w.err
    /\ writes' = w.writes
    /\ approved' = w.appr
    /\ rejected_ids' = w.rejd
    /\ rejected_keys' = w.keys

\* review_pending after a command left the working list w.mem and index i2:
\* an exception leaves the program (main), the loop goes on while
\* i < len(pending_events), and when it ends the pending store is saved
Continue(w, i2) ==
    IF w.err # NoError
    THEN /\ Store(w)
         /\ pc' = "exited"
         /\ pending_events' = w.mem
         /\ i' = i2
    ELSE IF i2 < Len(w.mem)
    THEN /\ Store(w)
         /\ pc' = "review"
         /\ pending_events' = w.mem
         /\ i' = i2
    ELSE /\ Store([w EXCEPT !.pend = w.mem, !.writes = Append(@, "pending")])
         /\ pc' = "menu"
         /\ pending_events' = <<>>
         /\ i' = 0


\* ------------------------------------------------------------------ review
\* what a command that touches no store leaves alone
NoStoreChange ==
    /\ UNCHANGED <<pending_file, events_file, rejected_file, backups, error,
                   approved, rejected_ids, rejected_keys>>
    /\ writes' = <<>>

\* main menu choice 2: review_pending up to its first prompt
StartReview ==
    /\ pc = "menu"
    /\ last = "none" \/ nops < MaxOps
    /\ nops' = IF last = "none" THEN nops ELSE nops + 1
    /\ last' = "review"
    /\ session_start' = pending_file
    /\ approved' = {}
    /\ rejected_ids' = {}
    /\ writes' = <<>>
    /\ selected' = {}
    /\ i' = 0
    /\ IF pending_file = <<>>
       THEN /\ pc' = "menu"
            /\ pending_events' = <<>>
       ELSE /\ pc' = "review"
            /\ pending_events' = pending_file
    /\ UNCHANGED <<pending_file, events_file, rejected_file, backups, error,
                   rejected_keys, nscraped, componentVars>>

\* choice 'a' that moves on to the next index after the pop
ApproveAdvancing ==
    /\ pc = "review"
    /\ last' = "a"
    /\ LET w == ApproveEvent(World, i + 1)
       IN  IF w.err # NoError
           THEN Continue(w, i)
           ELSE Continue([w EXCEPT !.mem = Pop(@, i + 1)], i + 1)
    /\ UNCHANGED <<selected, session_start, nops, nscraped, componentVars>>

\* choice 'a'
Approve ==
    /\ pc = "review"
    /\ last' = "a"
    /\ LET w == ApproveEvent(World, i + 1)
       IN  IF w.err # NoError
           THEN Continue(w, i)
           ELSE Continue([w EXCEPT !.mem = Pop(@, i + 1)], i)
    /\ UNCHANGED <<selected, session_start, nops, nscraped, componentVars>>

\* dict[key] = value
SetKey(d, key, value) ==
    [x \in DOMAIN d \cup {key} |-> IF x = key THEN value ELSE d[x]]

\* float(text) for the texts the operator types here; "abc" raises ValueError.
\* Coordinates are counted in 1/10000 of a degree.
IsFloat(text) == text \in {"50.3167", "11.9167", "0"}

Float(text) ==
    CASE text = "50.3167" -> 503167
      [] text = "11.9167" -> 119167
      [] text = "0" -> 0

\* event['location'][key] = value, after `if 'location' not in event:
\* event['location'] = {}`
SetLocation(event, key, value) ==
    LET location == IF "location" \in DOMAIN event THEN event.location ELSE <<>>
    IN  SetKey(event, "location", SetKey(location, key, value))

\* the latitude and longitude prompts: the empty location is created before
\* float() can raise, and a ValueError keeps the old value
SetCoordinate(event, key, text) ==
    IF text = "" THEN event
    ELSE IF IsFloat(text) THEN SetLocation(event, key, Float(text))
    ELSE IF "location" \in DOMAIN event THEN event
    ELSE SetKey(event, "location", <<>>)

\* what the operator answers to the eight prompts of _edit_event, before
\* strip(); the title is a character sequence, the other answers are atoms
\* and "" is the answer that is blank after strip()
NoAnswers ==
    [title |-> <<>>, description |-> "", location |-> "", lat |-> "", lon |-> "",
     start_time |-> "", end_time |-> "", url |-> ""]

\* _edit_event changing the id with the title
EditEventNewId(event, answers) ==
    LET new_title == Strip(answers.title)
        e1 == IF new_title # <<>>
              THEN SetKey(SetKey(event, "title", new_title), "id", event.id + 100)
              ELSE event
        e2 == IF answers.description # ""
              THEN SetKey(e1, "description", answers.description) ELSE e1
        e3 == IF answers.location # ""
              THEN SetLocation(e2, "name", answers.location) ELSE e2
        e4 == SetCoordinate(e3, "lat", answers.lat)
        e5 == SetCoordinate(e4, "lon", answers.lon)
        e6 == IF answers.start_time # ""
              THEN SetKey(e5, "start_time", answers.start_time) ELSE e5
        e7 == IF answers.end_time # ""
              THEN SetKey(e6, "end_time", answers.end_time) ELSE e6
    IN  IF answers.url # "" THEN SetKey(e7, "url", answers.url) ELSE e7

\* _edit_event: every answer is stripped and a blank one keeps the field
EditEvent(event, answers) ==
    LET new_title == Strip(answers.title)
        e1 == IF new_title # <<>> THEN SetKey(event, "title", new_title) ELSE event
        e2 == IF answers.description # ""
              THEN SetKey(e1, "description", answers.description) ELSE e1
        e3 == IF answers.location # ""
              THEN SetLocation(e2, "name", answers.location) ELSE e2
        e4 == SetCoordinate(e3, "lat", answers.lat)
        e5 == SetCoordinate(e4, "lon", answers.lon)
        e6 == IF answers.start_time # ""
              THEN SetKey(e5, "start_time", answers.start_time) ELSE e5
        e7 == IF answers.end_time # ""
              THEN SetKey(e6, "end_time", answers.end_time) ELSE e6
    IN  IF answers.url # "" THEN SetKey(e7, "url", answers.url) ELSE e7

\* choice 'e' with the given answers
EditWith(answers) ==
    /\ pc = "review"
    /\ nops < MaxOps
    /\ nops' = nops + 1
    /\ last' = "e"
    /\ Continue([World EXCEPT !.mem[i + 1] = EditEvent(@, answers)], i + 1)
    /\ UNCHANGED <<selected, session_start, nscraped>>

\* choice 'e', the operator changing the title, the start time or neither
Edit ==
    /\ \E new_title \in {TitleNone, TitleSpam}, new_start \in {"", GoodTime, BadTime} :
          EditWith([NoAnswers EXCEPT !.title = new_title, !.start_time = new_start])
    /\ UNCHANGED componentVars

\* choice 'r'
Reject ==
    /\ pc = "review"
    /\ last' = "r"
    /\ Continue([RejectEvent(World, i + 1) EXCEPT !.mem = Pop(@, i + 1)], i)
    /\ UNCHANGED <<selected, session_start, nops, nscraped, componentVars>>

\* choice 's'
Skip ==
    /\ pc = "review"
    /\ last' = "s"
    /\ Continue(World, i + 1)
    /\ UNCHANGED <<selected, session_start, nops, nscraped, componentVars>>

\* choice 'q': break, then the save after the loop
Quit ==
    /\ pc = "review"
    /\ last' = "q"
    /\ Continue(World, Len(pending_events))
    /\ UNCHANGED <<selected, session_start, nops, nscraped, componentVars>>

\* any other choice: "Invalid choice. Try again."
InvalidChoice ==
    /\ pc = "review"
    /\ UNCHANGED vars

\* choice 'b': _batch_selection_mode up to its first prompt.  The index i is
\* not read again before review_pending sets it to 0 after the batch mode.
EnterBatch ==
    /\ pc = "review"
    /\ nops < MaxOps
    /\ nops' = nops + 1
    /\ last' = "b"
    /\ pc' = "batch"
    /\ selected' = {}
    /\ i' = 0
    /\ NoStoreChange
    /\ UNCHANGED <<pending_events, session_start, nscraped, componentVars>>

\* ------------------------------------------------------------------ batch
\* review_pending after _batch_selection_mode returned: the working list is
\* loaded again from the pending store and the review restarts at 0
AfterBatch(w) == Continue([w EXCEPT !.mem = w.pend], 0)

\* a batch command that only changes the selection
Select(new_selected) ==
    /\ pc = "batch"
    /\ selected' = new_selected
    /\ NoStoreChange
    /\ UNCHANGED <<pending_events, i, pc, last, session_start, nops, nscraped, componentVars>>

\* 'back'
Back ==
    /\ pc = "batch"
    /\ last' = "back"
    /\ AfterBatch(World)
    /\ selected' = {}
    /\ UNCHANGED <<session_start, nops, nscraped, componentVars>>

\* 'all'
SelectAll == Select(0..(Len(pending_events) - 1))

\* 'none'
SelectNone == Select({})

\* 'range N-M': selected.update(range(start - 1, end))
SelectRange ==
    \E start \in 0..MaxPending, end \in 1..(MaxPending + 1) :
        Select(selected \cup ((start - 1)..(end - 1)))

\* 'pattern WORD': the events whose lowercased title contains the pattern
PatternMatches(pattern) ==
    {idx \in 0..(Len(pending_events) - 1) :
        Contains(pattern, Lower(pending_events[idx + 1].title))}

SelectPattern ==
    \E pattern \in {<<"s", "p">>, <<"a">>, <<"S">>} :
        Select(selected \cup PatternMatches(Lower(pattern)))

\* a number: toggles the event when 0 <= num < len(pending_events)
Toggle ==
    \E number \in 0..(MaxPending + 1) :
        LET num == number - 1
        IN  Select(IF 0 <= num /\ num < Len(pending_events)
                   THEN (IF num \in selected THEN selected \ {num}
                         ELSE selected \cup {num})
                   ELSE selected)

\* 'show': pending_events[idx] for every selected index
Show ==
    /\ pc = "batch"
    /\ selected # {}
    /\ IF \E idx \in selected : PyIndex(Len(pending_events), idx) = 0
       THEN /\ pc' = "exited"
            /\ error' = [kind |-> "IndexError", id |-> 0]
            /\ last' = "show"
            /\ selected' = {}
       ELSE UNCHANGED <<pc, error, last, selected>>
    /\ writes' = <<>>
    /\ UNCHANGED <<pending_file, events_file, rejected_file, backups, approved,
                   rejected_ids, rejected_keys, pending_events, i,
                   session_start, nops, nscraped, componentVars>>

\* 'approve' with its confirmation prompt
BatchApproveCommand ==
    /\ pc = "batch"
    /\ selected # {}
    /\ \E confirm \in {"yes", "no"} :
          IF confirm = "yes"
          THEN /\ last' = "batch_approve"
               /\ LET w == BatchApprove([World EXCEPT !.via = "batch"], selected)
                  IN  IF w.err # NoError THEN Continue(w, i) ELSE AfterBatch(w)
               /\ selected' = {}
          ELSE /\ NoStoreChange
               /\ UNCHANGED <<pending_events, i, pc, selected, last>>
    /\ UNCHANGED <<session_start, nops, nscraped, componentVars>>

\* 'reject' with its confirmation prompt
BatchRejectCommand ==
    /\ pc = "batch"
    /\ selected # {}
    /\ \E confirm \in {"yes", "no"} :
          IF confirm = "yes"
          THEN /\ last' = "batch_reject"
               /\ LET w == BatchReject(World, selected)
                  IN  IF w.err # NoError THEN Continue(w, i) ELSE AfterBatch(w)
               /\ selected' = {}
          ELSE /\ NoStoreChange
               /\ UNCHANGED <<pending_events, i, pc, selected, last>>
    /\ UNCHANGED <<session_start, nops, nscraped, componentVars>>

\* 'approve', 'reject' or 'show' with nothing selected, or an unknown command
BatchNoOp ==
    /\ pc = "batch"
    /\ UNCHANGED vars

\* ------------------------------------------------------------------ scrape
\* the rejection list suppresses a candidate with the same normalized title
\* and the same source
IsRejected(rejected_events, title, source) ==
    \E k \in 1..Len(rejected_events) :
        rejected_events[k] = [title |-> Normalize(title), source |-> source]

\* main menu choice 1: a scrape that yields one candidate
Scrape ==
    /\ pc = "menu"
    /\ nops < MaxOps
    /\ nops' = nops + 1
    /\ \E title \in {TitleSpam, TitleSpamNoisy, TitleJazz}, source \in {"facebook"} :
          IF IsRejected(rejected_file, title, source)
          THEN /\ last' = "suppressed"
               /\ writes' = <<>>
               /\ UNCHANGED <<pending_file, nscraped>>
          ELSE /\ last' = "scraped"
               /\ writes' = <<"pending">>
               /\ nscraped' = nscraped + 1
               /\ pending_file' =
                      Append(pending_file,
                             NewEvent(MaxPending + nscraped + 1, title, source, GoodTime))
    /\ UNCHANGED <<events_file, rejected_file, backups, pending_events, i, selected,
                   pc, error, session_start, approved, rejected_ids, rejected_keys,
                   componentVars>>

Next ==
    \/ Scrape
    \/ StartReview
    \/ Approve
    \/ Edit
    \/ Reject
    \/ Skip
    \/ Quit
    \/ InvalidChoice
    \/ EnterBatch
    \/ Back
    \/ SelectAll
    \/ SelectNone
    \/ SelectRange
    \/ SelectPattern
    \/ Toggle
    \/ Show
    \/ BatchApproveCommand
    \/ BatchRejectCommand
    \/ BatchNoOp

Spec == Init /\ [][Next]_vars


\* ------------------------------------------------------------------ edit
\* The review of events that carry every field _edit_event prompts for.
\* an event as VHSSource._parse_course builds it
VhsEvent(id) ==
    [id |-> id, title |-> TitleJazz, description |-> "course",
     location |-> [name |-> "VHS Hofer Land", lat |-> 503167, lon |-> 119167],
     start_time |-> GoodTime, end_time |-> "", url |-> "https://vhs.example",
     source |-> "vhs", category |-> "education", status |-> "pending"]

\* an event with the required fields only
BareEvent(id) ==
    [id |-> id, title |-> TitleSpam, source |-> "facebook",
     start_time |-> GoodTime, status |-> "pending"]

EditLists == {<<VhsEvent(1)>>, <<BareEvent(1)>>, <<VhsEvent(1), BareEvent(2)>>}

\* every answer the operator may give to one prompt
AnswerValues ==
    [title |-> {<<>>, <<" ">>, TitleSpam},
     description |-> {"", "workshop"},
     location |-> {"", "Hof"},
     lat |-> {"", "abc", "50.3167"},
     lon |-> {"", "abc", "0"},
     start_time |-> {"", BadTime},
     end_time |-> {"", GoodTime},
     url |-> {"", "https://new.example"}]

\* every prompt answered
AllAnswers ==
    [title |-> TitleSpam, description |-> "workshop", location |-> "Hof",
     lat |-> "50.3167", lon |-> "0", start_time |-> BadTime,
     end_time |-> GoodTime, url |-> "https://new.example"]

\* the answers the operator may give to the eight prompts: any answer to one
\* prompt, the other seven all left blank or all answered
EditAnswers ==
    { [answers EXCEPT ![key] = value] :
          answers \in {NoAnswers, AllAnswers},
          <<key, value>> \in UNION { {key} \X AnswerValues[key] : key \in DOMAIN AnswerValues } }

InitEdit ==
    /\ pending_file \in EditLists
    /\ events_file = <<OldEvent>>
    /\ rejected_file = <<>>
    /\ backups = <<>>
    /\ pending_events = <<>>
    /\ i = 0
    /\ selected = {}
    /\ pc = "menu"
    /\ error = NoError
    /\ last = "none"
    /\ writes = <<>>
    /\ session_start = <<>>
    /\ approved = {}
    /\ rejected_ids = {}
    /\ rejected_keys = {}
    /\ nops = 0
    /\ nscraped = 0
    /\ ComponentsIdle

\* choice 'e', any answers
EditAny ==
    \E answers \in EditAnswers :
        /\ EditWith(answers)
        /\ args' = answers
        /\ UNCHANGED <<result, cacheVars, saveVars>>

NextEdit ==
    \/ StartReview
    \/ EditAny
    \/ Skip
    \/ Quit

SpecEdit == InitEdit /\ [][NextEdit]_vars


\* ------------------------------------------------------------------ cache
Range(list) == {list[n] : n \in 1..Len(list)}

\* list[-n:] of Python for n >= 0: the last n elements, and the whole list
\* for n = 0 (-0 is 0) or n >= len(list)
LastEntries(list, n) ==
    IF n = 0 \/ n >= Len(list) THEN list
    ELSE SubSeq(list, Len(list) - n + 1, Len(list))

\* SourceCache.is_processed
IsProcessed(keys, key) == key \in Range(keys)

\* load reading a key the payload does not have
LoadedKeysOtherKey(text) == <<>>

\* data.get("processed_keys", []) of a decoded dict
LoadedKeys(text) ==
    IF JsonKind(text) = "object" THEN SubSeq(text, 2, Len(text) - 2) ELSE <<>>

\* mark_processed moving a key that is present to the newest position
MarkProcessedTouch(keys, max, key) ==
    LET appended == Append(SelectSeq(keys, LAMBDA x : x # key), key)
    IN  IF Len(appended) > max THEN LastEntries(appended, max) ELSE appended

\* mark_processed keeping the oldest keys: processed_keys[:max_entries]
MarkProcessedKeepOldest(keys, max, key) ==
    IF key \in Range(keys) THEN keys
    ELSE LET appended == Append(keys, key)
         IN  IF Len(appended) > max THEN SubSeq(appended, 1, max) ELSE appended

\* SourceCache.mark_processed: the key list after the call
MarkProcessed(keys, max, key) ==
    IF key \in Range(keys) THEN keys
    ELSE LET appended == Append(keys, key)
         IN  IF Len(appended) > max THEN LastEntries(appended, max) ELSE appended

\* how SourceCache.load returns: "missing" and "invalid" are the two early
\* returns, "raised" is the AttributeError of data.get on a decoded document
\* that is no dict, "loaded" is the assignment of line 27
LoadResult(file) ==
    IF ~file.exists THEN "missing"
    ELSE IF JsonKind(file.text) = "invalid" THEN "invalid"
    ELSE IF JsonKind(file.text) = "list" THEN "raised"
    ELSE "loaded"

\* per key, the new keys inserted since the key was: the counters after a
\* call of mark_processed(key), counted up to max_entries
Since(since, key, inserted) ==
    [x \in Keys |->
        IF x = key /\ inserted THEN 0
        ELSE IF inserted /\ x # key /\ since[x] >= 0 /\ since[x] < max_entries
        THEN since[x] + 1
        ELSE since[x]]

NeverMarked == [x \in Keys |-> -1]

\* the files a cache may find at its path: none, an empty one, a truncated
\* one, a JSON list, an empty JSON object, and caches written by earlier
\* runs, the last one with more keys than any max_entries here
InitFiles ==
    { MissingFile,
      File(<<>>),
      File(<<"{", KeyNames[1]>>),
      File(<<"[", "]">>),
      File(<<"{", "}">>),
      File(Dumps(<<>>)),
      File(Dumps([n \in 1..(MaxEntries + 1) |-> KeyNames[n]])) }

\* SourceCache(cache_path, max_entries)
InitCache ==
    /\ processed_keys = <<>>
    /\ max_entries \in 0..MaxEntries
    /\ cache_file \in InitFiles
    /\ returned = NoCall
    /\ marked = NoMarks
    /\ inserted_since = NeverMarked
    /\ ReviewIdle
    /\ SaveIdle
    /\ PureIdle

CallMarkProcessed ==
    \E key \in Keys :
        LET inserted == ~IsProcessed(processed_keys, key)
        IN  /\ processed_keys' = MarkProcessed(processed_keys, max_entries, key)
            /\ returned' = [call |-> "mark",
                            result |-> IF inserted THEN "inserted" ELSE "present"]
            /\ marked' = IF ~inserted \/ ~marked.distinct THEN marked
                         ELSE IF key \in Range(marked.keys)
                         THEN [distinct |-> FALSE, keys |-> <<>>]
                         ELSE [marked EXCEPT !.keys = Append(@, key)]
            /\ inserted_since' = Since(inserted_since, key, inserted)
            /\ UNCHANGED <<max_entries, cache_file, cacheRest>>

CallIsProcessed ==
    \E key \in Keys :
        /\ returned' = [call |-> "is",
                        result |-> IF IsProcessed(processed_keys, key)
                                   THEN "true" ELSE "false"]
        /\ UNCHANGED <<processed_keys, max_entries, cache_file, marked,
                       inserted_since, cacheRest>>

CallLoad ==
    /\ returned' = [call |-> "load", result |-> LoadResult(cache_file)]
    /\ IF LoadResult(cache_file) = "loaded"
       THEN /\ processed_keys' = LoadedKeys(cache_file.text)
            /\ marked' = [distinct |-> FALSE, keys |-> <<>>]
            /\ inserted_since' = NeverMarked
       ELSE UNCHANGED <<processed_keys, marked, inserted_since>>
    /\ UNCHANGED <<max_entries, cache_file, cacheRest>>

CallSave ==
    /\ cache_file' = File(Dumps(processed_keys))
    /\ returned' = [call |-> "save", result |-> "saved"]
    /\ UNCHANGED <<processed_keys, max_entries, marked, inserted_since,
                   cacheRest>>

NextCache ==
    \/ CallMarkProcessed
    \/ CallIsProcessed
    \/ CallLoad
    \/ CallSave

SpecCache == InitCache /\ [][NextCache]_vars


\* ------------------------------------------------------------------ save
\* SourceCache.save, save_events and save_pending_events as the file system
\* sees them: open(path, 'w') truncates the file, the text is written piece
\* by piece, close ends the save.  The process may die in between.
Stores == {"cache", "events", "pending"}

\* the lists a save is called with
SaveData == {<<>>, <<KeyNames[1]>>}

InitSave ==
    /\ disk = [store \in Stores |->
                  IF store = "cache" THEN MissingFile ELSE File(Dumps(<<>>))]
    /\ saving = NotSaving
    /\ ReviewIdle
    /\ CacheIdle
    /\ PureIdle

\* open(path, 'w'), of write_text as well: the file is created or truncated
OpenFile(store, data) ==
    /\ saving.state = "none"
    /\ disk' = [disk EXCEPT ![store] = File(<<>>)]
    /\ saving' = [state |-> "open", store |-> store, old |-> disk[store],
                  text |-> Dumps(data), written |-> 0]
    /\ UNCHANGED <<reviewVars, cacheVars, pureVars>>

\* SourceCache.save
SaveCache == \E data \in SaveData : OpenFile("cache", data)

\* utils.save_events
SaveEvents == \E data \in SaveData : OpenFile("events", data)

\* utils.save_pending_events
SavePendingEvents == \E data \in SaveData : OpenFile("pending", data)

\* the next piece of the text reaches the file
WriteFile ==
    /\ saving.state = "open"
    /\ saving.written < Len(saving.text)
    /\ disk' = [disk EXCEPT ![saving.store].text =
                                Append(@, saving.text[saving.written + 1])]
    /\ saving' = [saving EXCEPT !.written = @ + 1]
    /\ UNCHANGED <<reviewVars, cacheVars, pureVars>>

\* the end of the `with` block, or of write_text
CloseFile ==
    /\ saving.state = "open"
    /\ saving.written = Len(saving.text)
    /\ saving' = NotSaving
    /\ UNCHANGED <<disk, reviewVars, cacheVars, pureVars>>

\* the process dies during the save
Crash ==
    /\ saving.state = "open"
    /\ saving' = [saving EXCEPT !.state = "crashed"]
    /\ UNCHANGED <<disk, reviewVars, cacheVars, pureVars>>

\* the program is started again
Restart ==
    /\ saving.state = "crashed"
    /\ saving' = NotSaving
    /\ UNCHANGED <<disk, reviewVars, cacheVars, pureVars>>

NextSave ==
    \/ SaveCache
    \/ SaveEvents
    \/ SavePendingEvents
    \/ WriteFile
    \/ CloseFile
    \/ Crash
    \/ Restart

SpecSave == InitSave /\ [][NextSave]_vars


\* ------------------------------------------------------------------ vhs
\* VHSSource._parse_course on a course container of the listing page.  A
\* container is described by the course it lists (title words, date) and by
\* how the page writes it; the heading text is derived from that.
TitleSpamJazz == TitleSpam \o <<" ">> \o TitleJazz

UpperChar(c) ==
    CASE c = "p" -> "P"
      [] c = "a" -> "A"
      [] c = "m" -> "M"
      [] c = "z" -> "Z"
      [] OTHER -> c

\* every blank doubled
RECURSIVE Widen(_)
Widen(s) ==
    IF s = <<>> THEN s
    ELSE (IF Head(s) = " " THEN <<" ", " ">> ELSE <<Head(s)>>) \o Widen(Tail(s))

\* a comma before every blank
RECURSIVE Commas(_)
Commas(s) ==
    IF s = <<>> THEN s
    ELSE (IF Head(s) = " " THEN <<",", " ">> ELSE <<Head(s)>>) \o Commas(Tail(s))

\* the title as the page writes it
Styled(title, style) ==
    CASE style = "plain" -> title
      [] style = "upper" -> [k \in 1..Len(title) |-> UpperChar(title[k])]
      [] style = "spaced" -> <<" ">> \o Widen(title) \o <<" ">>
      [] style = "punct" -> Commas(title) \o <<"!">>

Day1 == "01.02.2026"
Day2 == "02.02.2026"

\* the course containers: the heading is the title, followed or not by
\* "Mo. <date> <time><location>"; without it the container text may carry a
\* date and a time
Containers ==
    [words : {TitleSpam, TitleJazz, TitleSpamJazz},
     style : {"plain", "upper", "spaced", "punct"},
     weekday : {"Mo."}, date : {Day1, Day2}, time : {"", "18:00", "19:30"},
     location : {"Hof"}, text_date : {""}, text_time : {""}, clock : {1, 2}]
    \cup
    [words : {TitleSpam, TitleJazz, TitleSpamJazz},
     style : {"plain", "upper", "spaced", "punct"},
     weekday : {""}, date : {""}, time : {""}, location : {""},
     text_date : {"", Day1}, text_time : {"10:00", "20:00"}, clock : {1, 2}]

\* title_elem.get_text(strip=True): the title part of the heading
HeadingText(container) == Strip(Styled(container.words, container.style))

\* len(raw_title): the title part and "Mo. DD.MM.YYYY" with what follows
RawLen(container) ==
    Len(HeadingText(container)) + (IF container.weekday = "" THEN 0 ELSE 14)

\* _parse_concatenated_title: the title before the weekday pattern, the date
\* of the pattern, the location after it; the time of the pattern is dropped
ParseConcatenatedTitle(container) ==
    IF container.weekday = ""
    THEN [title |-> Strip(HeadingText(container)), date |-> "", location |-> ""]
    ELSE [title |-> Strip(HeadingText(container)), date |-> container.date,
          location |-> container.location]

NoStart == [date |-> "", time |-> ""]

\* date_utils.extract_date_from_text: the date found in the text, at the time
\* found with it or at default_hour
ExtractDateFromText(date, time, default_hour) ==
    IF date = "" THEN NoStart
    ELSE [date |-> date, time |-> IF time = "" THEN default_hour ELSE time]

\* title normalisation of the identity generator: punctuation stripped,
\* whitespace collapsed, lowercase
StripPunctuation(s) == SelectSeq(s, LAMBDA c : c \notin {"!", ",", "."})

RECURSIVE Squeeze(_)
Squeeze(s) ==
    IF Len(s) < 2 THEN s
    ELSE IF s[1] = " " /\ s[2] = " " THEN Squeeze(Tail(s))
    ELSE <<s[1]>> \o Squeeze(Tail(s))

NormalizeTitle(title) == Lower(Strip(Squeeze(StripPunctuation(title))))

\* the date-only part of a start time, "unscheduled" without one
DateOnly(start_time) ==
    IF start_time.date = "" THEN "unscheduled" ELSE start_time.date

\* date_utils.generate_stable_event_id: the source namespace, the normalized
\* title and the date; distinct triples give distinct ids
GenerateStableEventId(source, title, start_time) ==
    [source |-> source, title |-> NormalizeTitle(title),
     date |-> DateOnly(start_time)]

\* _parse_course generating the id from the title and the time of the listing
ParseCourseWithTime(container) ==
    IF RawLen(container) < 5 THEN <<>>
    ELSE LET parsed == ParseConcatenatedTitle(container)
             title == IF parsed.title # <<>> THEN parsed.title
                      ELSE HeadingText(container)
             start_time ==
                 IF parsed.date # ""
                 THEN ExtractDateFromText(parsed.date, "", "18:00")
                 ELSE ExtractDateFromText(container.text_date,
                                          container.text_time, "18:00")
         IN  << [id |-> GenerateStableEventId("vhs", Append(title, container.time),
                                              start_time),
                 title |-> title,
                 location |-> IF parsed.location # "" THEN parsed.location
                              ELSE "VHS Hofer Land",
                 start_time |-> start_time,
                 source |-> "VHS Hofer Land",
                 scraped_at |-> container.clock,
                 status |-> "pending"] >>

\* _parse_course: the event of the container, or nothing (None)
ParseCourse(container) ==
    IF RawLen(container) < 5 THEN <<>>
    ELSE LET parsed == ParseConcatenatedTitle(container)
             title == IF parsed.title # <<>> THEN parsed.title
                      ELSE HeadingText(container)
             start_time ==
                 IF parsed.date # ""
                 THEN ExtractDateFromText(parsed.date, "", "18:00")
                 ELSE ExtractDateFromText(container.text_date,
                                          container.text_time, "18:00")
         IN  << [id |-> GenerateStableEventId("vhs", title, start_time),
                 title |-> title,
                 location |-> IF parsed.location # "" THEN parsed.location
                              ELSE "VHS Hofer Land",
                 start_time |-> start_time,
                 source |-> "VHS Hofer Land",
                 scraped_at |-> container.clock,
                 status |-> "pending"] >>

\* two containers, the second scraped in the same run or in a later one
InitId ==
    /\ args \in {pair \in Containers \X Containers :
                    pair[1].clock = 1 /\ pair[1].style \in {"plain", "spaced"}}
    /\ result = NotCalled
    /\ ReviewIdle
    /\ CacheIdle
    /\ SaveIdle

ParseCourses ==
    /\ ~result.called
    /\ result' = [called |-> TRUE,
                  events |-> <<ParseCourse(args[1]), ParseCourse(args[2])>>]
    /\ UNCHANGED <<args, reviewVars, cacheVars, saveVars>>

NextId == ParseCourses

SpecId == InitId /\ [][NextId]_vars


\* ------------------------------------------------------------------ vhs runs
\* A scrape run of the source vhs: a new process loads the cache of the
\* source, parses the listing page, stores every event whose id the cache
\* does not hold in the pending store and marks it, and saves the cache.
\* The page lists at most 20 courses (course_containers[:20]) and the cache
\* keeps 500 ids; here the cache keeps MaxEntries ids and the listing has two
\* courses, written in two ways.
PageContainers ==
    { c \in Containers :
        /\ c.words \in {TitleSpamJazz, TitleJazz}
        /\ c.date = Day1
        /\ c.clock = 1
        /\ <<c.style, c.time>> \in {<<"plain", "18:00">>, <<"upper", "19:30">>} }

Pages == UNION { [1..n -> PageContainers] : n \in 1..2 }

\* the id as the string the cache stores
IdTable ==
    << GenerateStableEventId("vhs", TitleSpamJazz, [date |-> Day1, time |-> ""]),
       GenerateStableEventId("vhs", TitleJazz, [date |-> Day1, time |-> ""]) >>

IdString(id) == KeyNames[CHOOSE n \in 1..Len(IdTable) : IdTable[n] = id]

\* the loop of the run over the containers of the page
RECURSIVE ScrapeLoop(_, _)
ScrapeLoop(run, containers) ==
    IF containers = <<>> THEN run
    ELSE LET events == ParseCourse(Head(containers))
             key == IdString(events[1].id)
         IN  IF events = <<>> THEN ScrapeLoop(run, Tail(containers))
             ELSE IF IsProcessed(run.keys, key)
             THEN ScrapeLoop([run EXCEPT !.skipped = @ \cup {events[1].id}],
                             Tail(containers))
             ELSE ScrapeLoop([run EXCEPT
                                 !.keys = MarkProcessed(@, max_entries, key),
                                 !.pend = Append(@, events[1]),
                                 !.inserted = @ \cup {events[1].id}],
                             Tail(containers))

InitVhs ==
    /\ ReviewIdle
    /\ SaveIdle
    /\ processed_keys = <<>>
    /\ max_entries = MaxEntries
    /\ cache_file = MissingFile
    /\ returned = NoCall
    /\ marked = NoMarks
    /\ inserted_since = <<>>
    /\ args = <<>>
    /\ result = NotCalled

\* one run; args is the page of this run, result.previous the page of the
\* run before
ScrapeVhs ==
    /\ nops < MaxRuns
    /\ nops' = nops + 1
    /\ \E page \in Pages :
          LET loaded == IF LoadResult(cache_file) = "loaded"
                        THEN LoadedKeys(cache_file.text) ELSE <<>>
              run == ScrapeLoop([keys |-> loaded, pend |-> pending_file,
                                 inserted |-> {}, skipped |-> {}], page)
          IN  /\ pending_file' = run.pend
              /\ processed_keys' = run.keys
              /\ cache_file' = File(Dumps(run.keys))
              /\ args' = page
              /\ result' = [called |-> TRUE, previous |-> args,
                            inserted |-> run.inserted, skipped |-> run.skipped]
    /\ UNCHANGED <<events_file, rejected_file, backups, pending_events, i,
                   selected, pc, error, last, writes, session_start, approved,
                   rejected_ids, rejected_keys, nscraped, max_entries, returned,
                   marked, inserted_since, saveVars>>

NextVhs == ScrapeVhs

SpecVhs == InitVhs /\ [][NextVhs]_vars


\* ------------------------------------------------------------------ doubles
\* The scores of _find_similar_events are Python floats (IEEE 754 doubles).
\* A double x with x = 0 or 1/16 <= x < 2 is the integer x * 2^56, held as
\* hi * 2^28 + lo with 0 <= lo < 2^28; the operations round to 53 significant
\* bits, to nearest, ties to even, as the hardware does.
Two28 == 268435456

Double(hi, lo) == [hi |-> hi, lo |-> lo]

Zero == Double(0, 0)                         \* 0.0
One == Double(Two28, 0)                      \* 1.0
TitleWeight == Double(161061273, 161061272)  \* 0.6
LocationWeight == Double(80530636, 214748364) \* 0.3
PartialWeight == Double(40265318, 107374182) \* 0.15
ProximityWeight == Double(26843545, 161061274) \* 0.1
Threshold == Double(80530636, 214748364)     \* 0.3

DoubleLess(x, y) == x.hi < y.hi \/ (x.hi = y.hi /\ x.lo < y.lo)

\* the distance of two neighbouring doubles at hi * 2^28 + lo, in units 2^-56
Ulp(hi) ==
    IF hi >= Two28 THEN 16
    ELSE IF hi >= Two28 \div 2 THEN 8
    ELSE IF hi >= Two28 \div 4 THEN 4
    ELSE IF hi >= Two28 \div 8 THEN 2
    ELSE 1

Carry(hi, lo) == Double(hi + lo \div Two28, lo % Two28)

\* the double nearest to hi * 2^28 + lo + f, where frac tells the fraction f
\* of a unit: "zero", "below" (0 < f < 1/2), "half" or "above" (1/2 < f < 1)
Round(hi, lo, frac) ==
    LET u == Ulp(hi)
        r == lo % u
        down == Double(hi, lo - r)
        up == Carry(hi, lo - r + u)
        even == ((lo - r) \div u) % 2 = 0
    IN  IF u = 1
        THEN CASE frac \in {"zero", "below"} -> down
               [] frac = "half" -> (IF even THEN down ELSE up)
               [] frac = "above" -> up
        ELSE IF 2 * r < u THEN down
        ELSE IF 2 * r > u THEN up
        ELSE IF frac = "zero" THEN (IF even THEN down ELSE up)
        ELSE up

\* x + y
DoubleAdd(x, y) ==
    LET sum == Carry(x.hi + y.hi, x.lo + y.lo)
    IN  Round(sum.hi, sum.lo, "zero")

\* c / m for integers 0 <= c <= m, 1 <= m <= 7
\* a quotient that ignores the number of common tokens
DoubleDivWhole(c, m) == One

DoubleDiv(c, m) ==
    LET a == c * Two28
        b == (a % m) * Two28
        rem == b % m
    IN  Round(a \div m, b \div m,
              IF rem = 0 THEN "zero"
              ELSE IF 2 * rem < m THEN "below"
              ELSE IF 2 * rem = m THEN "half"
              ELSE "above")

\* the digits of a double to the base 2^14, lowest first
Base == 16384

Digits(x) ==
    << x.lo % Base, x.lo \div Base,
       x.hi % Base, (x.hi \div Base) % Base, x.hi \div (Base * Base) >>

Digit(d, k) == IF k >= 1 /\ k <= Len(d) THEN d[k] ELSE 0

\* the digits of the product of two digit sequences, before the carries
RECURSIVE Column(_, _, _, _)
Column(dx, dy, k, j) ==
    IF j > k THEN 0
    ELSE Digit(dx, j) * Digit(dy, k + 1 - j) + Column(dx, dy, k, j + 1)

\* the carries taken from digit k on
RECURSIVE Carried(_, _, _)
Carried(columns, k, carry) ==
    IF k > Len(columns) THEN <<carry>>
    ELSE <<(columns[k] + carry) % Base>>
             \o Carried(columns, k + 1, (columns[k] + carry) \div Base)

\* x * y: the product has the unit 2^-112, its digits 5.. are the units 2^-56
DoubleMul(x, y) ==
    LET columns == [k \in 1..9 |-> Column(Digits(x), Digits(y), k, 1)]
        p == Carried(columns, 1, 0)
        lo == p[5] + p[6] * Base
        hi == p[7] + p[8] * Base + p[9] * Base * Base + p[10] * Base * Base * Base
        rest == p[1] + p[2] + p[3]
    IN  Round(hi, lo,
              IF p[4] = 0 /\ rest = 0 THEN "zero"
              ELSE IF p[4] < Base \div 2 THEN "below"
              ELSE IF p[4] = Base \div 2 /\ rest = 0 THEN "half"
              ELSE "above")


\* ------------------------------------------------------------------ similarity
\* str.split(): the words between the blanks
RECURSIVE Words(_, _)
Words(s, word) ==
    IF s = <<>> THEN (IF word = <<>> THEN <<>> ELSE <<word>>)
    ELSE IF Head(s) = " "
    THEN (IF word = <<>> THEN <<>> ELSE <<word>>) \o Words(Tail(s), <<>>)
    ELSE Words(Tail(s), Append(word, Head(s)))

Split(s) == Words(s, <<>>)

\* dict.get(key, default)
Get(d, key, default) == IF key \in DOMAIN d THEN d[key] ELSE default

\* a coordinate that is there and is not 0 (None and 0.0 are both false)
Truthy(location, key) == key \in DOMAIN location /\ location[key] # 0

Abs(n) == IF n < 0 THEN -n ELSE n

\* calculate_distance(...) < 1.0 for coordinates in 1/10000 of a degree that
\* have the same longitude or longitudes a degree and more apart: along a
\* meridian the haversine distance is 6371 km * pi / 180 = 111.195 km for a
\* degree, so 1 km is 89.9 / 10000 of a degree
DistanceBelow1Km(lat1, lon1, lat2, lon2) ==
    lon1 = lon2 /\ Abs(lat1 - lat2) <= 89

\* the score of one historical event, as the loop body adds it up
Score(event, historical) ==
    LET event_title == Lower(Get(event, "title", <<>>))
        event_place == Get(event, "location", <<>>)
        event_location == Lower(Get(event_place, "name", <<>>))
        hist_title == Lower(Get(historical, "title", <<>>))
        hist_place == Get(historical, "location", <<>>)
        hist_location == Lower(Get(hist_place, "name", <<>>))
        event_words == Range(Split(event_title))
        hist_words == Range(Split(hist_title))
        common_words == event_words \cap hist_words
        title_score ==
            DoubleDiv(Cardinality(common_words),
                      SetMax({Cardinality(event_words), Cardinality(hist_words)}))
        s1 == IF /\ hist_title # <<>> /\ event_title # <<>>
                 /\ event_words # {} /\ hist_words # {}
              THEN DoubleAdd(Zero, DoubleMul(title_score, TitleWeight))
              ELSE Zero
        s2 == IF hist_location # <<>> /\ event_location # <<>>
              THEN IF \/ Contains(event_location, hist_location)
                      \/ Contains(hist_location, event_location)
                   THEN DoubleAdd(s1, LocationWeight)
                   ELSE IF \E word \in Range(Split(event_location)) :
                              Contains(word, hist_location)
                   THEN DoubleAdd(s1, PartialWeight)
                   ELSE s1
              ELSE s1
    IN  IF /\ Truthy(event_place, "lat") /\ Truthy(event_place, "lon")
           /\ Truthy(hist_place, "lat") /\ Truthy(hist_place, "lon")
           /\ DistanceBelow1Km(event_place.lat, event_place.lon,
                               hist_place.lat, hist_place.lon)
        THEN DoubleAdd(s2, ProximityWeight)
        ELSE s2

\* the loop of _find_similar_events: the events above the threshold
RECURSIVE Scored(_, _)
Scored(event, historical_events) ==
    IF historical_events = <<>> THEN <<>>
    ELSE LET historical == Head(historical_events)
             score == Score(event, historical)
         IN  (IF DoubleLess(Threshold, score)
              THEN <<[event |-> historical, score |-> score]>>
              ELSE <<>>) \o Scored(event, Tail(historical_events))

\* list.sort(key=score, reverse=True): stable, the highest score first
\* a sort that puts an item before the items of the same score
RECURSIVE InsertByScoreFirst(_, _)
InsertByScoreFirst(sorted, item) ==
    IF sorted = <<>> THEN <<item>>
    ELSE IF ~DoubleLess(item.score, Head(sorted).score)
    THEN <<item>> \o sorted
    ELSE <<Head(sorted)>> \o InsertByScoreFirst(Tail(sorted), item)

RECURSIVE InsertByScore(_, _)
InsertByScore(sorted, item) ==
    IF sorted = <<>> THEN <<item>>
    ELSE IF DoubleLess(Head(sorted).score, item.score)
    THEN <<item>> \o sorted
    ELSE <<Head(sorted)>> \o InsertByScore(Tail(sorted), item)

RECURSIVE SortByScore(_, _)
SortByScore(sorted, list) ==
    IF list = <<>> THEN sorted
    ELSE SortByScore(InsertByScore(sorted, Head(list)), Tail(list))

\* _find_similar_events
FindSimilarEvents(event, historical_events) ==
    IF historical_events = <<>> THEN <<>>
    ELSE SortByScore(<<>>, Scored(event, historical_events))

\* the titles, location names and coordinates of the events compared
NameHof == <<"H", "o", "f">>
TitleSpamJazzHof == TitleSpamJazz \o <<" ">> \o NameHof

SimTitles ==
    {<<>>, TitleSpam, TitleJazz, TitleSpamJazz, TitleSpamJazzHof,
     Styled(TitleSpam, "upper")}

NameSaal == <<"S", "a", "a", "l">>
NameHofSaal == NameHof \o <<" ">> \o NameSaal
NameSaalJazz == NameSaal \o <<" ">> \o TitleJazz
NameSaalbauHof == NameSaal \o <<"b", "a", "u", " ">> \o NameHof

SimNames == {<<>>, NameHof, NameSaal, NameHofSaal, NameSaalJazz, NameSaalbauHof}

\* Hof, 0.56 km and 2.2 km north of it, and a place on the equator
SimCoordinates ==
    { [lat |-> 503167, lon |-> 119167], [lat |-> 503217, lon |-> 119167],
      [lat |-> 503367, lon |-> 119167], [lat |-> 0, lon |-> 119167] }

\* locations with a name only, and located ones
SimLocations ==
    { [name |-> name] : name \in SimNames }
    \cup { [name |-> name, lat |-> c.lat, lon |-> c.lon] :
              name \in {<<>>, NameHof, NameHofSaal}, c \in SimCoordinates }

\* events without a location, every title at every named place, and the
\* titles of zero to three tokens at the located places
SimEvents ==
    { [title |-> title] : title \in SimTitles }
    \cup { e \in [title : SimTitles, location : SimLocations] :
              "lat" \in DOMAIN e.location
                => e.title \in {<<>>, TitleSpam, TitleSpamJazz, TitleSpamJazzHof} }

\* the historical events of the longer lists: two that differ in the case of
\* the title only, and events with other titles, names and coordinates
SimCorpus ==
    { [title |-> TitleSpam],
      [title |-> Styled(TitleSpam, "upper")],
      [title |-> TitleJazz],
      [title |-> TitleSpamJazz, location |-> [name |-> NameHof]],
      [title |-> TitleSpam,
       location |-> [name |-> NameHof, lat |-> 503167, lon |-> 119167]],
      [title |-> <<>>, location |-> [name |-> NameHofSaal]] }

\* the candidates compared with the longer lists
SimCandidates ==
    { [title |-> TitleSpam],
      [title |-> TitleSpamJazz, location |-> [name |-> NameHofSaal]],
      [title |-> TitleJazz,
       location |-> [name |-> NameHof, lat |-> 503217, lon |-> 119167]] }

\* the calls: any event against no historical event or any one historical
\* event, and a candidate against a list of up to MaxHistorical events of
\* the corpus
SimCalls ==
    [event : SimEvents, historical_events : {<<>>} \cup {<<h>> : h \in SimEvents}]
    \cup [event : SimCandidates,
          historical_events : UNION { [1..n -> SimCorpus] : n \in 2..MaxHistorical }]

InitSim ==
    /\ args \in SimCalls
    /\ result = NotCalled
    /\ ReviewIdle
    /\ CacheIdle
    /\ SaveIdle

CallFindSimilarEvents ==
    /\ ~result.called
    /\ result' = [called |-> TRUE,
                  similar |-> FindSimilarEvents(args.event, args.historical_events)]
    /\ UNCHANGED <<args, reviewVars, cacheVars, saveVars>>

NextSim == CallFindSimilarEvents

SpecSim == InitSim /\ [][NextSim]_vars


\* ------------------------------------------------------------------ advice
\* The review with the similar historical events shown above each prompt.
\* the historical events load_historical_events may return
AdviceHistories ==
    {<<>>} \cup {<<h>> : h \in SimCorpus}
    \cup {<<[title |-> Styled(TitleSpam, "upper")], [title |-> TitleSpam]>>}

InitAdvice ==
    /\ pending_file \in PendingLists
    /\ events_file = <<OldEvent>>
    /\ rejected_file = <<>>
    /\ backups = <<>>
    /\ pending_events = <<>>
    /\ i = 0
    /\ selected = {}
    /\ pc = "menu"
    /\ error = NoError
    /\ last = "none"
    /\ writes = <<>>
    /\ session_start = <<>>
    /\ approved = {}
    /\ rejected_ids = {}
    /\ rejected_keys = {}
    /\ nops = 0
    /\ nscraped = 0
    /\ args \in [historical_events : AdviceHistories]
    /\ result = NotCalled
    /\ CacheIdle
    /\ SaveIdle

\* the prompt the review loop is at: the review, the index and the length of
\* the working list
Prompt == <<nops, i, Len(pending_events)>>

\* the similar events have been shown for this prompt
Shown == result.called /\ result.prompt = Prompt

\* similar_events[:3]
TopThree(similar_events) ==
    SubSeq(similar_events, 1, IF Len(similar_events) < 3 THEN Len(similar_events) ELSE 3)

\* showing similar events and rejecting the event when there is one
ShowSimilarEventsRejecting(w, pos, similar_events) ==
    IF similar_events # <<>>
    THEN [RejectEvent(w, pos) EXCEPT !.mem = Pop(@, pos)]
    ELSE w

\* the lines printed for the similar events: nothing is written
ShowSimilarEvents(w, pos, similar_events) == w

\* the top of the review loop: the event and its similar events are shown
ShowSimilar ==
    /\ pc = "review"
    /\ ~Shown
    /\ LET similar_events ==
               FindSimilarEvents(pending_events[i + 1], args.historical_events)
           w == ShowSimilarEvents([World EXCEPT !.err = error, !.writes = writes],
                                  i + 1, similar_events)
       IN  /\ Store(w)
           /\ pending_events' = w.mem
           /\ result' = [called |-> TRUE, prompt |-> Prompt,
                         shown |-> TopThree(similar_events)]
    /\ UNCHANGED <<i, pc, last, selected, session_start, nops, nscraped, args,
                   cacheVars, saveVars>>

\* the commands, given at the prompt below the similar events
ApproveShown == Shown /\ Approve
RejectShown == Shown /\ Reject
SkipShown == Shown /\ Skip
QuitShown == Shown /\ Quit

NextAdvice ==
    \/ StartReview
    \/ ShowSimilar
    \/ ApproveShown
    \/ RejectShown
    \/ SkipShown
    \/ QuitShown

SpecAdvice == InitAdvice /\ [][NextAdvice]_vars


\* ------------------------------------------------------------------ entities
\* The entity resolver: the registries of locations and organizers it holds
\* and the events it resolves.  Coordinates are in 1/10000 of a degree.
Locations ==
    [loc_test1 |-> [id |-> "loc_test1", name |-> "Test Location 1", lat |-> 500000,
                    lon |-> 110000, address |-> "Test Street 1", verified |-> TRUE],
     loc_test2 |-> [id |-> "loc_test2", name |-> "Test Location 2", lat |-> 503167,
                    lon |-> 119167, address |-> "Test Street 2", verified |-> FALSE]]

Organizers ==
    [org_test1 |-> [id |-> "org_test1", name |-> "Test Organizer 1", verified |-> TRUE]]

\* the keys of an event that carry its location, and those of its organizer
LocationKeys ==
    [kind |-> "locations", object |-> "location", id |-> "location_id",
     override |-> "location_override"]

OrganizerKeys ==
    [kind |-> "organizers", object |-> "organizer", id |-> "organizer_id",
     override |-> "organizer_override"]

\* the events resolved: references to known and unknown ids, overrides of
\* one and of several fields, embedded objects, and events that carry more
\* than one of them
EntityEvents ==
    { [location_id |-> "loc_test1", organizer_id |-> "org_test1"],
      [location_id |-> "loc_unknown", organizer |-> [name |-> "Club"]],
      [location_id |-> "loc_test1", location_override |-> [name |-> "VIP Area"],
       organizer_id |-> "org_unknown"],
      [location_id |-> "loc_test2",
       location_override |-> [address |-> "Side Door", lat |-> 503168],
       organizer_id |-> "org_test1", organizer_override |-> [name |-> "Guest"]],
      [location_id |-> "loc_unknown", location_override |-> [name |-> "VIP Area"],
       organizer_id |-> "org_test1"],
      [location |-> [name |-> "Pop-Up Stage", lat |-> 510000, lon |-> 120000],
       organizer |-> [name |-> "Club"]],
      [location |-> [name |-> "Pop-Up Stage", lat |-> 510000, lon |-> 120000],
       location_id |-> "loc_test1", organizer_id |-> "org_test1"],
      [location |-> [name |-> "Embedded", lat |-> 520000, lon |-> 130000],
       location_id |-> "loc_test2", location_override |-> [name |-> "Override"],
       organizer |-> [name |-> "Club"], organizer_id |-> "org_test1"] }

\* the batches: up to MaxBatch events, numbered as they come
Batches ==
    UNION { { [k \in 1..n |-> SetKey(f[k], "id", k)] : f \in [1..n -> EntityEvents] } :
              n \in 0..MaxBatch }

\* the tier of an event for one kind of entity: embedded before override
\* before reference
Tier(event, keys) ==
    IF keys.object \in DOMAIN event THEN "tier_3_embedded"
    ELSE IF keys.id \in DOMAIN event /\ keys.override \in DOMAIN event
    THEN "tier_2_override"
    ELSE IF keys.id \in DOMAIN event THEN "tier_1_reference"
    ELSE "none"

\* the tier chosen with the reference first
TierReferenceFirst(event, keys) ==
    IF keys.id \in DOMAIN event /\ keys.override \in DOMAIN event
    THEN "tier_2_override"
    ELSE IF keys.id \in DOMAIN event THEN "tier_1_reference"
    ELSE IF keys.object \in DOMAIN event THEN "tier_3_embedded"
    ELSE "none"

\* the tier analyze_entity_coverage counts the event in
CoverageTier(event, keys) == Tier(event, keys)

\* the number of events of the batch in a tier
CountTier(events, keys, tier) ==
    Cardinality({k \in 1..Len(events) : CoverageTier(events[k], keys) = tier})

TierCounts(events, keys) ==
    [tier_1_reference |-> CountTier(events, keys, "tier_1_reference"),
     tier_2_override |-> CountTier(events, keys, "tier_2_override"),
     tier_3_embedded |-> CountTier(events, keys, "tier_3_embedded")]

\* analyze_entity_coverage
AnalyzeEntityCoverage(events) ==
    [total_events |-> Len(events),
     locations |-> TierCounts(events, LocationKeys),
     organizers |-> TierCounts(events, OrganizerKeys)]

\* the override fields put on the canonical record, the canonical value winning
MergeCanonicalWins(canonical, override) ==
    [key \in DOMAIN canonical \cup DOMAIN override |->
        IF key \in DOMAIN canonical THEN canonical[key] ELSE override[key]]

\* the override fields on top of the copy of the canonical record
Merge(canonical, override) ==
    [key \in DOMAIN canonical \cup DOMAIN override |->
        IF key \in DOMAIN override THEN override[key] ELSE canonical[key]]

\* None
None == [ref |-> "none"]

\* resolving that hands out the registry's own record for a reference
ResolveEntityShared(registry, event, pos, keys) ==
    LET tier == Tier(event, keys)
    IN  IF tier = "tier_3_embedded"
        THEN [ref |-> <<"event", pos>>, object |-> event[keys.object]]
        ELSE IF tier = "none" THEN None
        ELSE IF event[keys.id] \notin DOMAIN registry THEN None
        ELSE IF tier = "tier_2_override"
        THEN [ref |-> <<"new">>,
              object |-> Merge(registry[event[keys.id]], event[keys.override])]
        ELSE [ref |-> <<"registry", event[keys.id]>>,
              object |-> registry[event[keys.id]]]

\* resolve_event_location and its organizer twin on the event at position pos:
\* the object returned and what it is: the event's embedded object, a new
\* object, or nothing
ResolveEntity(registry, event, pos, keys) ==
    LET tier == Tier(event, keys)
    IN  IF tier = "tier_3_embedded"
        THEN [ref |-> <<"event", pos>>, object |-> event[keys.object]]
        ELSE IF tier = "none" THEN None
        ELSE IF event[keys.id] \notin DOMAIN registry THEN None
        ELSE IF tier = "tier_2_override"
        THEN [ref |-> <<"new">>,
              object |-> Merge(registry[event[keys.id]], event[keys.override])]
        ELSE [ref |-> <<"new">>, object |-> registry[event[keys.id]]]

\* one event of resolve_events: the resolved object is put into the event,
\* an unresolved one leaves the event as it is
ResolveInto(registry, event, pos, keys) ==
    LET resolved == ResolveEntity(registry, event, pos, keys)
    IN  IF resolved = None THEN event ELSE SetKey(event, keys.object, resolved.object)

\* resolve_events that leaves out the events it cannot resolve
ResolveEventsDropping(locations, organizers, events) ==
    LET all == [k \in 1..Len(events) |->
                  ResolveInto(organizers,
                              ResolveInto(locations, events[k], k, LocationKeys),
                              k, OrganizerKeys)]
        Resolved(event) ==
            /\ ResolveEntity(locations, event, 1, LocationKeys) # None
            /\ ResolveEntity(organizers, event, 1, OrganizerKeys) # None
    IN  SelectSeq(all, Resolved)

\* resolve_events: every event in its place
ResolveEvents(locations, organizers, events) ==
    [k \in 1..Len(events) |->
        ResolveInto(organizers,
                    ResolveInto(locations, events[k], k, LocationKeys),
                    k, OrganizerKeys)]

InitEntity ==
    /\ args \in [locations : {Locations}, organizers : {Organizers}, events : Batches]
    /\ result = NotCalled
    /\ ReviewIdle
    /\ CacheIdle
    /\ SaveIdle

\* resolver.resolve_event_location(events[pos])
CallResolveEventLocation ==
    \E pos \in 1..Len(args.events) :
        /\ result' = [called |-> TRUE, call |-> "resolve_event_location", pos |-> pos,
                      changed |-> FALSE,
                      value |-> ResolveEntity(args.locations, args.events[pos], pos,
                                              LocationKeys)]
        /\ UNCHANGED <<args, reviewVars, cacheVars, saveVars>>

\* resolver.resolve_events(events): the events of the list are resolved in
\* place; refs tells what the location of each event is after it, changed
\* whether the caller has changed an object since
CallResolveEvents ==
    /\ args' = [args EXCEPT
                  !.events = ResolveEvents(args.locations, args.organizers, args.events)]
    /\ result' = [called |-> TRUE, call |-> "resolve_events", before |-> args.events,
                  changed |-> FALSE,
                  refs |-> [k \in 1..Len(args.events) |->
                              ResolveEntity(args.locations, args.events[k], k,
                                            LocationKeys).ref]]
    /\ UNCHANGED <<reviewVars, cacheVars, saveVars>>

\* resolver.analyze_entity_coverage(events)
CallAnalyzeEntityCoverage ==
    /\ result' = [called |-> TRUE, call |-> "analyze_entity_coverage",
                  value |-> AnalyzeEntityCoverage(args.events)]
    /\ UNCHANGED <<args, reviewVars, cacheVars, saveVars>>

\* object['name'] = 'changed' on the object ref names: the registry's record,
\* the location of an event, or an object nothing else refers to
Changed(ref, world) ==
    IF ref[1] = "registry"
    THEN [world EXCEPT !.locations[ref[2]].name = "changed"]
    ELSE IF ref[1] = "event"
    THEN [world EXCEPT !.events[ref[2]].location.name = "changed"]
    ELSE world

\* the caller changes the name of the location it was given
CallerChangesLocation ==
    /\ result.called
    /\ \/ /\ result.call = "resolve_event_location"
          /\ result.value # None
          /\ args' = Changed(result.value.ref, args)
          /\ result' = [result EXCEPT !.value.object.name = "changed",
                                       !.changed = TRUE]
       \/ /\ result.call = "resolve_events"
          /\ \E pos \in 1..Len(args.events) :
                /\ "location" \in DOMAIN args.events[pos]
                /\ args' = Changed(result.refs[pos],
                                   [args EXCEPT !.events[pos].location.name = "changed"])
          /\ result' = [result EXCEPT !.changed = TRUE]
    /\ UNCHANGED <<reviewVars, cacheVars, saveVars>>

NextEntity ==
    \/ CallResolveEventLocation
    \/ CallResolveEvents
    \/ CallAnalyzeEntityCoverage
    \/ CallerChangesLocation

SpecEntity == InitEntity /\ [][NextEntity]_vars


\* ------------------------------------------------------------------ claims
ApprovedIds == {p[1] : p \in approved}
ApprovedByA == {p[1] : p \in {q \in approved : q[2] = "a"}}
DecidedIds == ApprovedIds \cup rejected_ids

\* review_pending has returned to the menu without an exception
ReviewReturned ==
    pc = "menu" /\ last \in {"a", "e", "r", "s", "q", "back", "batch_approve", "batch_reject"}

\* the positions (from 1) of a selection of 0-based indices
Positions(sel) == {idx + 1 : idx \in sel}

\* a selection of positions the displayed list has
ValidSelection == selected # {} /\ selected \subseteq 0..(Len(pending_events) - 1)

Published(event) == [event EXCEPT !.status = "published", !.published_at = Now]

HasRecord(event) == event.title # <<>> /\ event.source # ""

\* a step that is the confirmed batch approve / batch reject
BatchApproveStep == pc = "batch" /\ last' = "batch_approve"
BatchRejectStep == pc = "batch" /\ last' = "batch_reject"

\* C1: a confirmed batch approve over valid positions whose events all pass
\* the schema check leaves the published store equal to its previous contents
\* plus the selected events, and the pending store equal to the unselected
\* events in their order.
C1_BatchApprovePublishesSelection ==
    [][(/\ BatchApproveStep
        /\ ValidSelection
        /\ \A idx \in selected : ValidateEventData(pending_events[idx + 1]))
       => /\ Len(events_file') = Len(events_file) + Cardinality(selected)
          /\ SubSeq(events_file', 1, Len(events_file)) = events_file
          /\ {events_file'[k] : k \in (Len(events_file) + 1)..Len(events_file')}
                = {Published(pending_events[idx + 1]) : idx \in selected}
          /\ pending_file' = Without(pending_events, Positions(selected), 1)]_vars

\* C2: after an approve ('a') of a schema-valid event the backup was written
\* before the published store, and when the review has returned normally the
\* event is in the published store, stamped published with a published_at
\* time, backed up, and no longer in the pending store.
C2_ApprovedEventLeavesPending ==
    /\ (last = "a" /\ error = NoError /\ pc # "menu")
          => writes = <<"backup", "events">>
    /\ ReviewReturned
          => \A id \in ApprovedByA :
                /\ \E k \in 1..Len(events_file) :
                      /\ events_file[k].id = id
                      /\ events_file[k].status = "published"
                      /\ events_file[k].published_at = Now
                /\ \E k \in 1..Len(backups) : backups[k] = id
                /\ id \notin Ids(pending_file)

\* C3: when the schema check fails in _approve_event nothing is written for
\* the event: the rejection store and the pending store are unchanged, the
\* event gets no published record and no backup, it stays unstamped in the
\* working list, and the ValueError reaches the caller.
C3_FailedApproveHasNoSideEffect ==
    [][(error = NoError /\ error'.kind = "ValueError")
       => /\ rejected_file' = rejected_file
          /\ pending_file' = pending_file
          /\ error'.id \in Ids(pending_file')
          /\ CountId(events_file', error'.id) = CountId(events_file, error'.id)
          /\ Cardinality({k \in 1..Len(backups') : backups'[k] = error'.id})
                = Cardinality({k \in 1..Len(backups) : backups[k] = error'.id})
          /\ last' = "a" => (events_file' = events_file /\ backups' = backups)
          /\ \E k \in 1..Len(pending_events') :
                /\ pending_events'[k].id = error'.id
                /\ pending_events'[k].status = "pending"
                /\ pending_events'[k].published_at = ""
          /\ pc' = "exited"]_vars

\* a failed approve in the review loop has happened
C3_Witness == last = "a" /\ error.kind = "ValueError" /\ ApprovedIds # {}

\* C4: a validation failure of an approve in the review loop blocks only that
\* approve: the review is still at its prompt, and the approvals and
\* rejections made before it are not in the pending store once the review
\* is over.
C4_ValidationFailureKeepsReviewRunning ==
    (last = "a" /\ error.kind = "ValueError")
       => /\ pc \in {"review", "menu"}
          /\ pc # "review" => \A id \in DecidedIds : id \notin Ids(pending_file)

\* C5: in a batch approve whose selection of several events holds exactly one that fails
\* the schema check, no exception leaves the batch operation, every other
\* selected event is published and removed from the pending store, and the
\* failing event stays pending.
C5_BatchApproveIsolatesInvalidEvent ==
    [][(/\ BatchApproveStep
        /\ ValidSelection
        /\ Cardinality(selected) >= 2
        /\ Cardinality({idx \in selected :
                           ~ValidateEventData(pending_events[idx + 1])}) = 1)
       => /\ error' = NoError
          /\ \A idx \in selected :
                LET event == pending_events[idx + 1]
                IN  IF ValidateEventData(event)
                    THEN /\ event.id \in Ids(events_file')
                         /\ event.id \notin Ids(pending_file')
                    ELSE event.id \in Ids(pending_file')]_vars

\* C6: when the review has returned, every event that was pending at its
\* start is in exactly one place: the pending store, the published store, or
\* removed by a reject.
C6_NoEventLostOrDuplicated ==
    ReviewReturned
       => \A id \in Ids(session_start) :
             Cardinality({place \in {"pending", "published", "rejected"} :
                \/ place = "pending" /\ id \in Ids(pending_file)
                \/ place = "published" /\ id \in Ids(events_file)
                \/ place = "rejected" /\ id \in rejected_ids}) = 1


Records(rejected_events) == {rejected_events[k] : k \in 1..Len(rejected_events)}

RecordOf(event) == [title |-> Normalize(event.title), source |-> event.source]

C8_RejectedKeySuppressed ==
    [][(pc = "menu" /\ last' = "scraped")
       => LET candidate == pending_file'[Len(pending_file')]
          IN  <<Normalize(candidate.title), candidate.source>> \notin rejected_keys]_vars

\* a scrape met a candidate whose key the operator had rejected
C8_Witness == last = "suppressed" /\ rejected_keys # {} /\ rejected_ids # {}

\* C9: published and rejected are terminal: an event that was approved or
\* rejected is not presented for review again, is not both published and
\* rejected, and is not published twice.
C9_DecidedEventsStayDecided ==
    \A id \in DecidedIds :
        /\ pc \in {"review", "batch"} => id \notin Ids(pending_events)
        /\ ~(id \in ApprovedIds /\ id \in rejected_ids)
        /\ CountId(events_file, id) <= 1

\* C10: after 'q' nothing is reverted: every event approved before the quit
\* is in the published store and not in the pending store, every event
\* rejected before it is not in the pending store, and every event not yet
\* decided is still in the pending store.
C10_QuitKeepsTransitions ==
    (pc = "menu" /\ last = "q")
       => \A id \in Ids(session_start) :
             /\ id \in ApprovedIds
                   => id \in Ids(events_file) /\ id \notin Ids(pending_file)
             /\ id \in rejected_ids => id \notin Ids(pending_file)
             /\ id \notin DecidedIds => id \in Ids(pending_file)

\* ---- C11
\* what _edit_event may do to an event, given the answers: the keys other
\* than the six it prompts for keep their values, of the location only name,
\* lat and lon may change, and a blank answer keeps its field
EditedKeys == {"title", "description", "location", "start_time", "end_time", "url"}

Field(d, key) == IF key \in DOMAIN d THEN <<d[key]>> ELSE <<>>

IsBlank(answers, key) ==
    IF key = "title" THEN Strip(answers.title) = <<>> ELSE answers[key] = ""

EditFrame(old, new, answers) ==
    /\ \A key \in (DOMAIN old \cup DOMAIN new) \ EditedKeys :
          Field(new, key) = Field(old, key)
    /\ \A key \in EditedKeys \ {"location"} :
          IsBlank(answers, key) => Field(new, key) = Field(old, key)
    /\ \A key \in {"name", "lat", "lon"} :
          IsBlank(answers, IF key = "name" THEN "location" ELSE key)
              => \/ Field(new, "location") = Field(old, "location")
                 \/ /\ "location" \in DOMAIN new
                    /\ Field(new.location, key)
                           = (IF "location" \in DOMAIN old
                              THEN Field(old.location, key) ELSE <<>>)
    /\ (IsBlank(answers, "location") /\ IsBlank(answers, "lat")
            /\ IsBlank(answers, "lon"))
           => Field(new, "location") = Field(old, "location")

\* the pending list after an edit: the working list, or the pending store
\* when the edit was the last command of the review
AfterEdit(mem, file, at) == IF at = "review" THEN mem ELSE file

\* C11: whatever the operator answers, _edit_event changes only title,
\* description, location name/lat/lon, start_time, end_time and url of the
\* event under review, a blank answer keeps its field, id, source and status
\* stay as they were; the edit command leaves the event at its place in the
\* pending list, every other event as it was, and the published store, the
\* rejection store and the backups untouched.
C11_EditChangesOnlyPromptedFields ==
    [][ last' = "e" =>
          LET after == AfterEdit(pending_events', pending_file', pc')
              old == pending_events[i + 1]
              new == after[i + 1]
          IN  /\ Len(after) = Len(pending_events)
              /\ \A k \in 1..Len(after) : k # i + 1 => after[k] = pending_events[k]
              /\ EditFrame(old, new, args')
              /\ new.id = old.id
              /\ new.source = old.source
              /\ new.status = old.status
              /\ UNCHANGED <<events_file, rejected_file, backups>>
              /\ pc' = "review" => pending_file' = pending_file ]_vars

\* an edit that changed the title, created the location and kept the url
C11_Witness ==
    /\ last = "e"
    /\ pc = "review"
    /\ pending_events[i].title = TitleSpam
    /\ pending_events[i].id = 1
    /\ pending_events[i].source = "vhs"
    /\ pending_events[i].url = "https://vhs.example"
    /\ pending_events[i].location.name = "Hof"

\* ---- C12
\* C12: in every state a SourceCache reaches by mark_processed, is_processed,
\* load and save, it holds at most max_entries keys.
C12_CacheWithinMaxEntries == Len(processed_keys) <= max_entries

\* ---- C13
\* C13: when more than max_entries distinct keys have been marked into a
\* cache constructed empty, the cache holds exactly the max_entries keys
\* marked last, in the order they were marked.
C13_OverfilledCacheKeepsNewest ==
    (marked.distinct /\ Len(marked.keys) > max_entries)
        => processed_keys = SubSeq(marked.keys,
                                   Len(marked.keys) - max_entries + 1,
                                   Len(marked.keys))

\* ---- C14
\* C14: mark_processed(k) and is_processed(k) for a key k that is in the
\* cache leave the key sequence as it is: no second copy, no move to the
\* newest position.
C14_PresentKeyLeavesSequence ==
    [][ /\ \A key \in Range(processed_keys) :
              MarkProcessed(processed_keys, max_entries, key) = processed_keys
        /\ (returned'.call = "is" \/ returned' = [call |-> "mark", result |-> "present"])
              => processed_keys' = processed_keys ]_vars

\* a full cache of two keys or more in which a present key was marked again
C14_Witness ==
    /\ returned = [call |-> "mark", result |-> "present"]
    /\ max_entries >= 2
    /\ Len(processed_keys) = max_entries

\* ---- C15
\* C15: a key inserted by mark_processed, with fewer than max_entries other
\* new keys inserted since, is in the cache (is_processed returns true for
\* it), whatever is_processed, mark_processed of present keys and save calls
\* came in between.
C15_InsertedKeyRetained ==
    \A key \in Keys :
        (inserted_since[key] >= 0 /\ inserted_since[key] < max_entries)
            => IsProcessed(processed_keys, key)

\* the oldest key of a full cache, one insertion before its eviction, found
\* by is_processed
C15_Witness ==
    /\ returned = [call |-> "is", result |-> "true"]
    /\ max_entries >= 2
    /\ Len(processed_keys) = max_entries
    /\ inserted_since[processed_keys[1]] = max_entries - 1

\* ---- C16
\* C16: load on a missing file or on a file whose content is not a cache
\* document does not raise and leaves the cache empty.
C16_LoadToleratesBadFile ==
    [][ (returned'.call = "load" /\ LoadResult(cache_file) # "loaded")
            => /\ returned'.result # "raised"
               /\ processed_keys' = <<>> ]_vars

\* ---- C17
\* C17: when the process dies during SourceCache.save, save_events or
\* save_pending_events, the file holds the complete old content or the
\* complete new content.
C17_CrashLeavesOldOrNew ==
    saving.state = "crashed"
        => disk[saving.store] \in {saving.old, File(saving.text)}

\* ---- C18
\* the date of the course a container lists, "" without one
CourseDate(container) ==
    IF container.weekday # "" THEN container.date ELSE container.text_date

C19_SecondScrapeInsertsNothing ==
    result.called =>
        \A m \in 1..Len(result.previous), n \in 1..Len(args) :
            LET first == ParseCourse(result.previous[m])
                second == ParseCourse(args[n])
            IN  (/\ result.previous[m].words = args[n].words
                 /\ CourseDate(result.previous[m]) = CourseDate(args[n]))
                    => /\ first[1].id = second[1].id
                       /\ second[1].id \in result.skipped
                       /\ second[1].id \notin result.inserted
                       /\ CountId(pending_file, second[1].id) = 1

\* a second run that lists the one course of the first run, written in
\* another way and at another time, and inserts nothing
C19_Witness ==
    /\ result.called
    /\ Len(result.previous) = 1
    /\ Len(args) = 1
    /\ result.previous[1].words = args[1].words
    /\ result.previous[1].style # args[1].style
    /\ result.inserted = {}
    /\ Len(pending_file) = 1

\* ---- C20
\* two doubles less than 2^-27 apart: equal up to the rounding of a few
\* additions
Close(x, y) == Abs(x.hi - y.hi) <= 1

\* both events have a title, a location name and coordinates, and they are
\* the same
IdenticalPair(event, historical) ==
    /\ "location" \in DOMAIN event
    /\ "location" \in DOMAIN historical
    /\ {"lat", "lon"} \subseteq DOMAIN event.location
    /\ event.title # <<>>
    /\ event.location.name # <<>>
    /\ event.title = historical.title
    /\ event.location = historical.location

TitleTokens(event) == Range(Split(Lower(Get(event, "title", <<>>))))

PlaceName(event) == Lower(Get(Get(event, "location", <<>>), "name", <<>>))

HasCoordinates(event) ==
    "location" \in DOMAIN event /\ {"lat", "lon"} \subseteq DOMAIN event.location

\* no common title token, no location name contained in the other or
\* sharing a word with it, and not within 1 km of each other
DisjointPair(event, historical) ==
    /\ TitleTokens(event) \cap TitleTokens(historical) = {}
    /\ \/ PlaceName(event) = <<>>
       \/ PlaceName(historical) = <<>>
       \/ /\ ~Contains(PlaceName(event), PlaceName(historical))
          /\ ~Contains(PlaceName(historical), PlaceName(event))
          /\ Range(Split(PlaceName(event))) \cap Range(Split(PlaceName(historical))) = {}
    /\ ~(/\ HasCoordinates(event)
         /\ HasCoordinates(historical)
         /\ DistanceBelow1Km(event.location.lat, event.location.lon,
                             historical.location.lat, historical.location.lon))

\* C20: a candidate and a historical event with identical titles, identical
\* location names and coincident coordinates score 1.0 (up to the rounding
\* of the sum 0.6 + 0.3 + 0.1) and the pair is
\* returned; a pair with no common title token, no location-name relation
\* and no proximity scores 0.0 and is not returned.
C20_IdenticalOneDisjointZero ==
    (result.called /\ Len(args.historical_events) = 1) =>
        LET event == args.event
            historical == args.historical_events[1]
        IN  /\ IdenticalPair(event, historical)
                => /\ Len(result.similar) = 1
                   /\ result.similar[1].event = historical
                   /\ Close(result.similar[1].score, One)
            /\ DisjointPair(event, historical)
                => /\ Score(event, historical) = Zero
                   /\ result.similar = <<>>

\* ---- C21
\* The three signals as exact numbers, in twentieths: the title signal is
\* 12 * common / most, the location signal 6 or 3, the proximity signal 2.
WholeWords(name) == Range(Split(name))

CommonTokens(event, historical) ==
    Cardinality(TitleTokens(event) \cap TitleTokens(historical))

MostTokens(event, historical) ==
    SetMax({Cardinality(TitleTokens(event)), Cardinality(TitleTokens(historical))})

LocationTwentieths(event, historical) ==
    IF PlaceName(event) = <<>> \/ PlaceName(historical) = <<>> THEN 0
    ELSE IF \/ Contains(PlaceName(event), PlaceName(historical))
            \/ Contains(PlaceName(historical), PlaceName(event)) THEN 6
    ELSE IF WholeWords(PlaceName(event)) \cap WholeWords(PlaceName(historical)) # {}
    THEN 3
    ELSE 0

IsNear(event, historical) ==
    /\ HasCoordinates(event)
    /\ HasCoordinates(historical)
    /\ DistanceBelow1Km(event.location.lat, event.location.lon,
                        historical.location.lat, historical.location.lon)

ProximityTwentieths(event, historical) == IF IsNear(event, historical) THEN 2 ELSE 0

\* composite score > 0.3, both sides multiplied by 20 * most
AboveThreshold(event, historical) ==
    LET most == SetMax({1, MostTokens(event, historical)})
    IN  12 * CommonTokens(event, historical)
          + most * (LocationTwentieths(event, historical)
                      + ProximityTwentieths(event, historical))
        > 6 * most

\* C21: find_similar returns exactly the historical events whose composite
\* score (title signal + location-name signal + proximity signal) is
\* strictly greater than 0.3: each of them once for each time it is in the
\* list, and no event scoring 0.3 or less.
C21_ReturnsExactlyAboveThreshold ==
    result.called =>
        LET event == args.event
            historical_events == args.historical_events
            above == {k \in 1..Len(historical_events) :
                        AboveThreshold(event, historical_events[k])}
        IN  /\ Len(result.similar) = Cardinality(above)
            /\ \A k \in 1..Len(historical_events) :
                  (k \in above)
                    <=> \E j \in 1..Len(result.similar) :
                           result.similar[j].event = historical_events[k]

\* ---- C22
\* an event with a location name only: no title, no coordinates
NameOnly(event) ==
    /\ event.title = <<>>
    /\ "location" \in DOMAIN event
    /\ DOMAIN event.location = {"name"}

\* C22: the location-name signal is 0.3 when either lowercased name contains
\* the other, 0.15 when it does not but the names share a whole word, and 0
\* otherwise, also when a name is empty.  Between two events that carry a
\* location name and nothing else the score is this signal.
C22_LocationSignal ==
    (/\ result.called
     /\ Len(args.historical_events) = 1
     /\ NameOnly(args.event)
     /\ NameOnly(args.historical_events[1])) =>
        LET twentieths == LocationTwentieths(args.event, args.historical_events[1])
        IN  Score(args.event, args.historical_events[1])
              = CASE twentieths = 6 -> LocationWeight
                  [] twentieths = 3 -> PartialWeight
                  [] OTHER -> Zero

\* ---- C23
\* an event with coordinates only: no title, an empty location name
CoordinatesOnly(event) ==
    /\ event.title = <<>>
    /\ HasCoordinates(event)
    /\ event.location.name = <<>>

\* C23: the proximity signal is 0.1 exactly when both events carry a latitude
\* and a longitude less than 1 km apart, whatever the coordinates are, and 0
\* otherwise.  Between two events that carry coordinates and nothing else
\* the score is this signal.
C23_ProximitySignal ==
    (/\ result.called
     /\ Len(args.historical_events) = 1
     /\ CoordinatesOnly(args.event)
     /\ CoordinatesOnly(args.historical_events[1])) =>
        Score(args.event, args.historical_events[1])
          = (IF IsNear(args.event, args.historical_events[1])
             THEN ProximityWeight ELSE Zero)

\* ---- C24
\* the event with its title only
TitleOnly(event) == [title |-> event.title]

\* C24: the title signal is 0.6 * common / most over the lowercased,
\* whitespace-split tokens of the two titles (most * signal = common * 0.6
\* up to the rounding of the doubles), 0 when either title is empty, at most
\* 0.6, and the composite score of every pair lies in [0, 1].
C24_TitleSignal ==
    (result.called /\ Len(args.historical_events) = 1) =>
        LET event == args.event
            historical == args.historical_events[1]
            signal == Score(TitleOnly(event), TitleOnly(historical))
            common == CommonTokens(event, historical)
            most == MostTokens(event, historical)
            score == Score(event, historical)
        IN  /\ (event.title = <<>> \/ historical.title = <<>>) => signal = Zero
            /\ Abs(most * signal.hi - common * TitleWeight.hi) <= most
            /\ common = most => Close(signal, IF most = 0 THEN Zero ELSE TitleWeight)
            /\ ~DoubleLess(TitleWeight, signal)
            /\ ~DoubleLess(score, Zero)
            /\ ~DoubleLess(One, score)

\* a pair sharing two of three title tokens, with a location match and
\* proximity on top
C24_Witness ==
    /\ result.called
    /\ Len(args.historical_events) = 1
    /\ CommonTokens(args.event, args.historical_events[1]) = 2
    /\ MostTokens(args.event, args.historical_events[1]) = 3
    /\ LocationTwentieths(args.event, args.historical_events[1]) = 6
    /\ IsNear(args.event, args.historical_events[1])
    /\ Len(result.similar) = 1

\* ---- C25
\* the historical events of the given score, in the order of the list
RECURSIVE EventsWithScore(_, _, _)
EventsWithScore(event, historical_events, score) ==
    IF historical_events = <<>> THEN <<>>
    ELSE (IF Score(event, Head(historical_events)) = score
          THEN <<Head(historical_events)>> ELSE <<>>)
         \o EventsWithScore(event, Tail(historical_events), score)

RECURSIVE ResultsWithScore(_, _)
ResultsWithScore(similar, score) ==
    IF similar = <<>> THEN <<>>
    ELSE (IF Head(similar).score = score THEN <<Head(similar).event>> ELSE <<>>)
         \o ResultsWithScore(Tail(similar), score)

\* C25: the results are in non-increasing score order, and the results of
\* one score are in the order they have in the historical list.
C25_SortedAndStable ==
    result.called =>
        /\ \A j \in 1..(Len(result.similar) - 1) :
              ~DoubleLess(result.similar[j].score, result.similar[j + 1].score)
        /\ \A j \in 1..Len(result.similar) :
              ResultsWithScore(result.similar, result.similar[j].score)
                = EventsWithScore(args.event, args.historical_events,
                                  result.similar[j].score)

\* two different historical events of one score, both returned
C25_Witness ==
    /\ result.called
    /\ Len(result.similar) = 2
    /\ result.similar[1].score = result.similar[2].score
    /\ result.similar[1].event # result.similar[2].event
    /\ result.similar[1].event = args.historical_events[1]

\* ---- C26
\* C26: computing and showing the similar events changes neither the event
\* under review, the working list, the historical events nor the pending,
\* published and rejection stores, whatever the scores are; the stores and
\* the working list change only in the step of an operator command.
C26_SimilarityIsAdvisory ==
    [][ /\ result' # result
            => UNCHANGED <<pending_events, i, args, pending_file, events_file,
                           rejected_file, backups, approved, rejected_ids,
                           rejected_keys>>
        /\ (pc = "review"
              /\ <<pending_events, pending_file, events_file, rejected_file,
                   backups>>' # <<pending_events, pending_file, events_file,
                                  rejected_file, backups>>)
            => (last' \in {"a", "r", "s", "q"} /\ result' = result) ]_vars

\* similar events with a score have been shown, and the event under review
\* and the stores are as they were when the review started
C26_Witness ==
    /\ Shown
    /\ result.shown # <<>>
    /\ last = "review"
    /\ pending_events = pending_file
    /\ rejected_file = <<>>

\* ---- C27
\* the events of the list that carry the keys as told
CountWith(events, present, absent) ==
    Cardinality({k \in 1..Len(events) :
                    /\ present \subseteq DOMAIN events[k]
                    /\ absent \cap DOMAIN events[k] = {}})

CountsByPresence(events, counts, keys) ==
    /\ counts.tier_3_embedded = CountWith(events, {keys.object}, {})
    /\ counts.tier_2_override
         = CountWith(events, {keys.id, keys.override}, {keys.object})
    /\ counts.tier_1_reference
         = CountWith(events, {keys.id}, {keys.object, keys.override})
    /\ counts.tier_1_reference + counts.tier_2_override + counts.tier_3_embedded
         = Len(events)

C28_RegistriesUnchanged ==
    /\ args.locations = Locations
    /\ args.organizers = Organizers

\* the caller has changed the location resolved for a reference-only event
C28_Witness ==
    /\ result.called
    /\ result.call = "resolve_event_location"
    /\ result.changed
    /\ Tier(args.events[result.pos], LocationKeys) = "tier_1_reference"
    /\ result.value.object.id = "loc_test1"
    /\ result.value.object.name = "changed"

\* ---- C29
\* C29: for an event with a known location id and an override (and no
\* embedded location) resolve_event_location returns the fields of the
\* override and of the canonical record together, each override field with
\* the override's value and every other field with the canonical value.
C29_OverrideWinsCanonicalFills ==
    (/\ result.called
     /\ result.call = "resolve_event_location"
     /\ ~result.changed
     /\ {"location_id", "location_override"} \subseteq DOMAIN args.events[result.pos]
     /\ "location" \notin DOMAIN args.events[result.pos]
     /\ args.events[result.pos].location_id \in DOMAIN Locations) =>
        LET override == args.events[result.pos].location_override
            canonical == Locations[args.events[result.pos].location_id]
        IN  /\ result.value # None
            /\ DOMAIN result.value.object = DOMAIN canonical \cup DOMAIN override
            /\ \A key \in DOMAIN override : result.value.object[key] = override[key]
            /\ \A key \in DOMAIN canonical \ DOMAIN override :
                  result.value.object[key] = canonical[key]

\* an override of the address and the latitude resolved
C29_Witness ==
    /\ result.called
    /\ result.call = "resolve_event_location"
    /\ ~result.changed
    /\ result.value # None
    /\ "address" \in DOMAIN result.value.object
    /\ result.value.object.address = "Side Door"
    /\ result.value.object.lat = 503168
    /\ result.value.object.name = "Test Location 2"

\* ---- C30
\* what an event carries for one kind after resolve_events: the embedded
\* object, the canonical record of a known id under its override, or what it
\* carried before
ResolvedAs(after, before, keys, registry) ==
    IF keys.object \in DOMAIN before
    THEN after[keys.object] = before[keys.object]
    ELSE IF keys.id \in DOMAIN before /\ before[keys.id] \in DOMAIN registry
    THEN /\ keys.object \in DOMAIN after
         /\ \A key \in DOMAIN registry[before[keys.id]] :
               after[keys.object][key]
                 = (IF keys.override \in DOMAIN before
                       /\ key \in DOMAIN before[keys.override]
                    THEN before[keys.override][key]
                    ELSE registry[before[keys.id]][key])
    ELSE keys.object \notin DOMAIN after

UnknownLocation(event) ==
    /\ "location" \notin DOMAIN event
    /\ "location_id" \in DOMAIN event
    /\ event.location_id \notin DOMAIN Locations

\* C30: resolve_event_location gives None for an unknown location id, and
\* resolve_events leaves a list of the same length and order in which the
\* events with unknown ids are kept with the field unresolved and every
\* other event is resolved.
C30_UnknownIdIsolated ==
    /\ (/\ result.called
        /\ result.call = "resolve_event_location"
        /\ UnknownLocation(args.events[result.pos])) => result.value = None
    /\ (result.called /\ result.call = "resolve_events" /\ ~result.changed) =>
          /\ Len(args.events) = Len(result.before)
          /\ \A k \in 1..Len(result.before) :
                /\ k \in DOMAIN args.events
                /\ args.events[k].id = result.before[k].id
                /\ ResolvedAs(args.events[k], result.before[k], LocationKeys, Locations)
                /\ ResolvedAs(args.events[k], result.before[k], OrganizerKeys, Organizers)

\* a batch resolved whose first event has an unknown location id and whose
\* second event got the canonical record
C30_Witness ==
    /\ result.called
    /\ result.call = "resolve_events"
    /\ ~result.changed
    /\ Len(args.events) = 2
    /\ UnknownLocation(args.events[1])
    /\ "location" \notin DOMAIN result.before[2]
    /\ "location" \in DOMAIN args.events[2]
    /\ args.events[2].location.name = "Test Location 1"

\* ---- C31
\* C31: whenever the review waits for the operator, in the review loop or in
\* batch mode, no event it has reported as approved or rejected in this
\* review is in the pending store on the disk, and no event is both in the
\* published store and in the pending store: an interruption at the prompt
\* leaves the stores as they are then.
C31_ProgressIsDurable ==
    pc \in {"review", "batch"}
       => /\ \A id \in DecidedIds : id \notin Ids(pending_file)
          /\ Ids(pending_file) \cap Ids(events_file) = {}

\* ---- C32
\* the ids of the events at the selected positions of the displayed list
SelectedIds == {pending_events[idx + 1].id : idx \in selected}

SelectedValidIds ==
    {pending_events[idx + 1].id :
        idx \in {x \in selected : ValidateEventData(pending_events[x + 1])}}

\* the ids of a list in its order
IdList(list) == [k \in 1..Len(list) |-> list[k].id]

\* C32: a confirmed batch approve or batch reject over valid positions is
\* applied to exactly the events that were at the selected positions: the
\* reject rejects and removes all of them, the approve approves and removes
\* those of them that pass the schema check, and no other event is approved,
\* rejected or removed; the events left keep their order.
C32_BatchAppliesToSelectedPositions ==
    [][/\ (BatchRejectStep /\ ValidSelection)
          => /\ rejected_ids' = rejected_ids \cup SelectedIds
             /\ ApprovedIds' = ApprovedIds
             /\ IdList(pending_file')
                   = IdList(Without(pending_events, Positions(selected), 1))
       /\ (BatchApproveStep /\ ValidSelection)
          => /\ ApprovedIds' = ApprovedIds \cup SelectedValidIds
             /\ rejected_ids' = rejected_ids
             /\ IdList(pending_file')
                   = IdList(Without(pending_events,
                                    {k \in Positions(selected) :
                                        ValidateEventData(pending_events[k])}, 1))]_vars

\* ---- C33
\* a 'back' in a batch mode in which no operation was applied
BackWithoutOperation == pc = "batch" /\ last = "b" /\ last' = "back"

\* C33: leaving batch mode with 'back' without having applied an operation
\* leaves the working pending list as it was when batch mode was entered.
C33_BatchModeAndBackChangesNothing ==
    [][BackWithoutOperation => pending_events' = pending_events]_vars

\* ---- C34
\* C34: in batch mode the selection holds only indices of events of the
\* displayed list.
C34_SelectionWithinDisplayedList ==
    pc = "batch" => selected \subseteq 0..(Len(pending_events) - 1)

\* ---- C35
\* C35: no event id occurs in two records of the published store.
C35_PublishedIdsAreUnique ==
    \A k1, k2 \in 1..Len(events_file) :
        events_file[k1].id = events_file[k2].id => k1 = k2

\* ---- C36
\* C36: the composite score is symmetric: the score _find_similar_events
\* computes for a candidate against one historical event equals the score it
\* computes with the two events exchanged.
C36_ScoreIsSymmetric ==
    (result.called /\ Len(args.historical_events) = 1)
       => Score(args.event, args.historical_events[1])
             = Score(args.historical_events[1], args.event)

\* ---- C37
\* a load that follows a save directly
LoadAfterSave == returned.call = "save" /\ returned'.call = "load"

\* C37: a load that follows a save reads the file the save wrote and leaves
\* the cache with exactly the saved key sequence, the same keys in the same
\* order, so every key that was processed before is processed after.
C37_SaveLoadRoundTrip ==
    [][LoadAfterSave
          => /\ returned'.result = "loaded"
             /\ LoadedKeys(cache_file.text) = processed_keys
             /\ processed_keys' = processed_keys
             /\ \A key \in Keys :
                   IsProcessed(processed_keys, key)
                      => IsProcessed(processed_keys', key)]_vars

\* two keys marked in an order no file of an earlier run holds, loaded back
\* from the file a save wrote
C37_Witness ==
    /\ returned = [call |-> "load", result |-> "loaded"]
    /\ processed_keys = <<KeyNames[2], KeyNames[1]>>
    /\ cache_file = File(Dumps(processed_keys))

\* ---- C38
\* the event the review loop is asking about
Presented == pending_events[i + 1]

\* the position of an event of the pending store the review started with
StartPosition(id) == CHOOSE k \in 1..Len(session_start) : session_start[k].id = id

\* review_pending called from the menu
ReviewStep == pc = "menu" /\ last' = "review" /\ vars' # vars

\* the states a review reaches by approve, edit, reject and skip alone: the
\* pending store is as the review found it (a batch operation writes it) and
\* the working list holds the events not decided yet (a return from batch mode
\* after an approve or a reject brings decided events back)
InSinglePass ==
    /\ pending_file = session_start
    /\ IdList(pending_events)
          = IdList(SelectSeq(session_start, LAMBDA e : e.id \notin DecidedIds))

\* an approve of a schema-valid event, an edit, a reject or a skip
SingleCommandStep ==
    /\ pc = "review"
    /\ InSinglePass
    /\ last' \in {"a", "e", "r", "s"}
    /\ vars' # vars
    /\ last' = "a" => ValidateEventData(Presented)

\* C38: the review starts by presenting the first event of the pending store.
\* In a review by approve, edit, reject and skip alone, after an approve of a
\* schema-valid event, an edit, a reject or a skip of the event at position k
\* of that store, it presents the event at position
\* k + 1 when there is one, and otherwise returns with the pending store
\* saved as the working list is then, without an exception.  (An invalid
\* command is the step InvalidChoice, which changes no variable.)
C38_EachEventPresentedOnceInOrder ==
    [][/\ (ReviewStep /\ pending_file # <<>>)
          => /\ pc' = "review"
             /\ Presented' = pending_file[1]
       /\ SingleCommandStep
          => LET k == StartPosition(Presented.id)
             IN  /\ error' = NoError
                 /\ k < Len(session_start)
                       => /\ pc' = "review"
                          /\ Presented'.id = session_start[k + 1].id
                 /\ k = Len(session_start)
                       => /\ pc' = "menu"
                          /\ writes'[Len(writes')] = "pending"
                          /\ IdList(pending_file')
                                = IdList(IF last' \in {"a", "r"}
                                         THEN Pop(pending_events, i + 1)
                                         ELSE pending_events)]_vars

\* a review of two events with approve and skip only has returned: the first
\* one approved, the second one skipped and alone in the saved pending store
C38_Witness ==
    /\ pc = "menu"
    /\ last = "s"
    /\ nops = 0
    /\ Len(session_start) = 2
    /\ ApprovedIds = {session_start[1].id}
    /\ IdList(pending_file) = <<session_start[2].id>>

====
